---- MODULE Spec2Model ----
(***************************************************************************)
(* A state-machine model of sibr::OpenXRHMD (src/core/openxr/OpenXRHMD.cpp) *)
(* the headset-session lifecycle and stereoscopic frame-loop controller.   *)
(*                                                                         *)
(* The XR runtime is the environment: the result of every runtime call,    *)
(* the event returned by xrPollEvent and the image index returned by       *)
(* xrAcquireSwapchainImage are inputs drawn with \E.  The caller of the    *)
(* public API is the second environment.  pollEvents' self-recursion       *)
(* (return pollEvents()) is a loop of PollIteration steps; blocking loops  *)
(* (synchronizeSession, the closeSession loop) keep their position in pc   *)
(* and stack.                                                              *)
(*                                                                         *)
(* `last` records what the most recent step did (the event it received,    *)
(* the runtime calls it issued, the callbacks it invoked, what it          *)
(* returned); every action overwrites it, so a predicate on `last` speaks  *)
(* about the step that led to the current state.                           *)
(***************************************************************************)
EXTENDS Integers, Sequences, FiniteSets, TLC

\* Largest view count the runtime reports in init (stereo: 2).
MaxViews == 2
\* Images per swapchain, as enumerated by the runtime.
NumImages == 2
\* Longest run of consecutive Ready (or Stopping) events that is followed.
MaxRun == 3
\* Longest list of swapchain formats the runtime advertises.
MaxFormats == 3
\* Most late frames that are followed in a report window with a frame in time.
MaxMissed == 1

VARIABLES
    m_status,            \* SessionStatus m_status
    m_instance,          \* XrInstance m_instance: "null" or "handle"
    m_session,           \* XrSession m_session: "null" or "handle"
    m_playSpace,         \* XrSpace m_playSpace: "null" or "handle"
    m_viewCount,         \* uint32_t m_viewCount
    m_resolution,        \* Eigen::Vector2i m_resolution
    m_swapchains,        \* XrSwapchain *m_swapchains
    m_swapchainsImages,  \* m_swapchainsLengths / m_swapchainsImages
    views,               \* XrView *views: "null" or "alloc"
    m_projectionViews,   \* XrCompositionLayerProjectionView *: "null" or "alloc"
    shouldRender,        \* m_lastFrameState.shouldRender == XR_TRUE
    predictedDisplay,    \* m_lastFrameState.predictedDisplayTime / predictedDisplayPeriod
    callbacks,           \* which of m_idleCallback, m_visibleCallback, m_focusedCallback are set
    sessionCreated,      \* the caller's copy of what its last startSession returned
    pc,                  \* position of the control thread
    stack,               \* callers waiting for the running call to return
    run,                 \* history: the current run of consecutive Ready / Stopping events
    failed,              \* history: the status has been Failure since the session was created
    handles,             \* history: the runtime's handles, as the create and destroy calls left them
    m_currentFrameRefreshReport,  \* FrameRefreshReport: the window being accumulated
    m_lastFrameRefreshReport,     \* FrameRefreshReport: the last completed window
    closing,             \* the events the runtime holds in answer to an exit request, and
                         \* history: the calls they have led to
    frameSync,           \* history: where the runtime's frame loop stands (wait, begin, end)
    last                 \* history: what the most recent step did

vars == <<m_status, m_instance, m_session, m_playSpace, m_viewCount, m_resolution,
          m_swapchains, m_swapchainsImages, views, m_projectionViews, shouldRender,
          callbacks, sessionCreated, pc, stack, run, failed, handles, frameSync, last,
          m_currentFrameRefreshReport, m_lastFrameRefreshReport, closing,
          predictedDisplay>>

(***************************************************************************)
(* Types                                                                   *)
(***************************************************************************)
\* enum class SessionStatus
SessionStatus == {"STOPPED", "IDLE", "BEGINNING", "SYNCHRONIZED", "ENDING", "FAILURE"}

\* XrSessionState, as switched on by updateCurrentSessionState
XrSessionState == {"UNKNOWN", "IDLE", "READY", "SYNCHRONIZED", "VISIBLE", "FOCUSED",
                   "STOPPING", "LOSS_PENDING", "EXITING", "MAX_ENUM"}

\* What one xrPollEvent call yields: no event (XR_EVENT_UNAVAILABLE), a failed
\* poll, or an event of one of the types pollEvents switches on.
PollOutcome == {"none", "error", "state", "loss", "profile", "other"}

\* A null array pointer, and an allocated array with its elements.
NullArray == [null |-> TRUE, elems |-> <<>>]
Array(e) == [null |-> FALSE, elems |-> e]

\* One entry of a call log: a runtime call with its result, or an invocation
\* of a caller-supplied callback.
Call(name, ok) == [call |-> name, view |-> -1, ok |-> ok, image |-> -1, layers |-> -1]
ViewCall(name, i, ok) == [call |-> name, view |-> i, ok |-> ok, image |-> -1, layers |-> -1]
RenderCall(i, img) ==
    [call |-> "renderFunc", view |-> i, ok |-> TRUE, image |-> img, layers |-> -1]
\* xrEndFrame with frameEndInfo.layerCount = n
EndFrame(ok, n) == [call |-> "xrEndFrame", view |-> -1, ok |-> ok, image |-> -1, layers |-> n]

\* The OpenGL texture of image j of the swapchain of view i (chosen by the
\* runtime; distinct images have distinct textures).
ImageHandle(i, j) == i * NumImages + j + 1

NoRun == [state |-> "UNKNOWN", len |-> 0, reqs |-> 0, failures |-> 0]

\* The stored resolution: the zero vector of the member initializer, the
\* headset's recommended resolution, or one of the caller's.
Resolution == {"zero", "recommended", "half", "double"}

\* The runtime's side of the handles: never created ("none"), live, live
\* after a destroy call that failed ("failed"), destroyed by a destroy call,
\* or destroyed with the handle it was created from ("dropped"); redestroyed: xrDestroyInstance was
\* issued for an instance handle it had been issued for before.
NoHandles == [instance |-> "none", session |-> "none", space |-> "none",
              swapchains |-> "none", redestroyed |-> FALSE]

\* The runtime's frame loop: "none" (no frame waited for), "waited" (an
\* xrWaitFrame call was issued), "begun" (xrBeginFrame was issued after
\* it); waitOk: an xrWaitFrame call has succeeded since the last
\* xrBeginFrame.
NoSync == [pending |-> "none", waitOk |-> FALSE]

\* struct FrameRefreshReport with its member initializers: the two frame
\* counters (the frame rates and the timestamp are left out).
NoReport == [nbMissedFrames |-> 0, totalRenderedFrames |-> 0]

\* The predicted display time and period waitNextFrame assigns before it
\* calls the runtime.
NoPrediction == [time |-> 0, period |-> 0]

\* The time and period a successful xrWaitFrame writes (both positive).
RuntimePrediction == [time |-> 1, period |-> 1]

\* No exit request has been answered.
NoClosing == [pending |-> <<>>, calls |-> <<>>, pre |-> "STOPPED"]

NoLast == [op |-> "construct", kind |-> "none", state |-> "UNKNOWN", pre |-> "STOPPED",
           preSession |-> "null", call |-> "none", callOk |-> TRUE, cbs |-> <<>>,
           calls |-> <<>>, frameKind |-> "none", frame |-> <<>>, preRender |-> FALSE,
           returned |-> FALSE, result |-> TRUE, stages |-> <<>>, badRead |-> FALSE,
           preViewCount |-> 0, preResolution |-> "zero", arg |-> "zero",
           preHandles |-> NoHandles, preSync |-> NoSync,
           destructor |-> FALSE, late |-> FALSE, reported |-> FALSE,
           formats |-> <<>>, created |-> <<>>, query |-> "none", eye |-> -1, value |-> "none", readView |-> -1,
           preCurrentReport |-> NoReport, preLastReport |-> NoReport,
           loop |-> FALSE, prePredicted |-> NoPrediction, unwaited |-> FALSE]

(***************************************************************************)
(* Construction: OpenXRHMD::OpenXRHMD and the member initializers.         *)
(* m_lastFrameState has no initializer, so shouldRender() before the first *)
(* waitNextFrame reads an indeterminate value, and so do the reads of its  *)
(* predicted display time and period.                                      *)
(***************************************************************************)
Constructed ==
    /\ m_status = "STOPPED"
    /\ m_instance = "null"
    /\ m_session = "null"
    /\ m_playSpace = "null"
    /\ m_viewCount = 0
    /\ m_resolution = "zero"
    /\ m_swapchains = NullArray
    /\ m_swapchainsImages = NullArray
    /\ views = "null"
    /\ m_projectionViews = "null"
    /\ shouldRender \in BOOLEAN
    /\ callbacks = {}
    /\ sessionCreated = FALSE
    /\ pc = "ready"
    /\ stack = <<>>
    /\ run = NoRun
    /\ failed = FALSE
    /\ handles = NoHandles
    /\ frameSync = NoSync
    /\ closing = NoClosing
    /\ m_currentFrameRefreshReport = NoReport
    /\ m_lastFrameRefreshReport = NoReport
    /\ last = NoLast

\* The indeterminate frame state is that of a frame to be rendered or is
\* all zero; WaitSpec, whose properties read the predicted display time,
\* starts from every combination.
Init ==
    /\ Constructed
    /\ predictedDisplay = IF shouldRender THEN RuntimePrediction ELSE NoPrediction

FrameStateInit == Constructed /\ predictedDisplay \in {NoPrediction, RuntimePrediction}

(***************************************************************************)
(* bool OpenXRHMD::isSessionRunning() const                                *)
(***************************************************************************)
\* A test that takes a failed session for a running one.
isSessionRunningUnlessStopped(status) == status # "STOPPED"

isSessionRunning(status) == status # "FAILURE" /\ status # "STOPPED"

(***************************************************************************)
(* void OpenXRHMD::updateCurrentSessionState(const XrSessionState &state)  *)
(* callOk is the result of the runtime call the state asks for, if any.    *)
(* Result: the new status and session handle, the runtime call issued      *)
(* ("none" if none) and the callbacks invoked.  `keep` is the outcome of a *)
(* case that changes nothing.                                              *)
(***************************************************************************)
\* if (m_idleCallback) m_idleCallback();   and likewise for the other two
notify(cb, cbSet) == IF cb \in cbSet THEN <<cb>> ELSE <<>>

\* case XR_SESSION_STATE_IDLE
stateIdle(keep, cbSet) == [keep EXCEPT !.status = "IDLE", !.cbs = notify("idle", cbSet)]

\* A Synchronized handler that assigns Idle.
stateSynchronizedIdle(keep) == [keep EXCEPT !.status = "IDLE"]

\* case XR_SESSION_STATE_SYNCHRONIZED
stateSynchronized(keep) == [keep EXCEPT !.status = "SYNCHRONIZED"]

\* case XR_SESSION_STATE_FOCUSED
stateFocused(keep, cbSet) == [keep EXCEPT !.cbs = notify("focused", cbSet)]

\* case XR_SESSION_STATE_VISIBLE
stateVisible(keep, cbSet) == [keep EXCEPT !.cbs = notify("visible", cbSet)]

\* A Ready handler without the m_status != BEGINNING guard.
stateReadyUnguarded(keep, callOk) ==
    [keep EXCEPT !.call = "xrBeginSession",
                 !.status = IF callOk THEN "BEGINNING" ELSE "FAILURE"]

\* case XR_SESSION_STATE_READY
stateReady(keep, callOk) ==
    IF keep.status # "BEGINNING"
    THEN [keep EXCEPT !.call = "xrBeginSession",
                      !.status = IF callOk THEN "BEGINNING" ELSE "FAILURE"]
    ELSE keep

\* A Stopping handler that assigns Stopped where the code assigns Ending.
stateStoppingStopped(keep, callOk) ==
    IF keep.status # "ENDING"
    THEN [keep EXCEPT !.call = "xrEndSession",
                      !.status = IF callOk THEN "STOPPED" ELSE "FAILURE"]
    ELSE keep

\* case XR_SESSION_STATE_STOPPING
stateStopping(keep, callOk) ==
    IF keep.status # "ENDING"
    THEN [keep EXCEPT !.call = "xrEndSession",
                      !.status = IF callOk THEN "ENDING" ELSE "FAILURE"]
    ELSE keep

\* A destroy handler that clears the handle before it looks at the result.
stateExitClearsFirst(keep, callOk) ==
    [keep EXCEPT !.call = "xrDestroySession", !.session = "null",
                 !.status = IF callOk THEN "STOPPED" ELSE "FAILURE"]

\* case XR_SESSION_STATE_LOSS_PENDING, case XR_SESSION_STATE_EXITING
stateExit(keep, callOk) ==
    IF callOk
    THEN [keep EXCEPT !.call = "xrDestroySession", !.session = "null",
                      !.status = "STOPPED"]
    ELSE [keep EXCEPT !.call = "xrDestroySession", !.status = "FAILURE"]

updateCurrentSessionState(status, session, cbSet, state, callOk) ==
    LET keep == [status |-> status, session |-> session, call |-> "none", cbs |-> <<>>]
    IN CASE state \in {"MAX_ENUM", "UNKNOWN"} -> keep
         [] state = "IDLE" -> stateIdle(keep, cbSet)
         [] state = "SYNCHRONIZED" -> stateSynchronized(keep)
         [] state = "FOCUSED" -> stateFocused(keep, cbSet)
         [] state = "VISIBLE" -> stateVisible(keep, cbSet)
         [] state = "READY" -> stateReady(keep, callOk)
         [] state = "STOPPING" -> stateStopping(keep, callOk)
         [] state \in {"LOSS_PENDING", "EXITING"} -> stateExit(keep, callOk)

(***************************************************************************)
(* bool OpenXRHMD::waitNextFrame()                                         *)
(* m_lastFrameState is reset, then written by a successful xrWaitFrame.    *)
(* xrLocateViews is given m_viewCount as capacity and &m_viewCount as      *)
(* output: `located`, the count the runtime writes there, becomes           *)
(* m_viewCount (n is its value before the call).                           *)
(***************************************************************************)
\* A waitNextFrame whose failed xrWaitFrame leaves the frame state of a
\* frame that was to be rendered.
waitNextFrameNoReset(waitOk, sr, locateOk, n, located) ==
    IF ~waitOk
    THEN [shouldRender |-> TRUE, predicted |-> RuntimePrediction, result |-> FALSE,
          viewCount |-> n, calls |-> <<Call("xrWaitFrame", FALSE)>>]
    ELSE [shouldRender |-> sr, predicted |-> RuntimePrediction, result |-> locateOk,
          viewCount |-> located,
          calls |-> <<Call("xrWaitFrame", TRUE), Call("xrLocateViews", locateOk)>>]

waitNextFrame(waitOk, sr, locateOk, n, located) ==
    IF ~waitOk
    THEN [shouldRender |-> FALSE, predicted |-> NoPrediction, result |-> FALSE,
          viewCount |-> n, calls |-> <<Call("xrWaitFrame", FALSE)>>]
    ELSE [shouldRender |-> sr, predicted |-> RuntimePrediction, result |-> locateOk,
          viewCount |-> located,
          calls |-> <<Call("xrWaitFrame", TRUE), Call("xrLocateViews", locateOk)>>]

(***************************************************************************)
(* bool OpenXRHMD::submitFrame()   -- the empty form                       *)
(***************************************************************************)
\* An empty submit that begins the frame and never ends it.
submitFrameEmptyNoEnd(beginOk, endOk) ==
    [result |-> beginOk /\ endOk, calls |-> <<Call("xrBeginFrame", beginOk)>>]

submitFrameEmpty(beginOk, endOk) ==
    IF ~beginOk
    THEN [result |-> FALSE, calls |-> <<Call("xrBeginFrame", FALSE)>>]
    ELSE [result |-> endOk,
          calls |-> <<Call("xrBeginFrame", TRUE), EndFrame(endOk, 0)>>]

(***************************************************************************)
(* bool OpenXRHMD::submitFrame(RenderFunc renderFunc) -- the per-view loop *)
(* r[i+1] is what the runtime does for view i: which call fails ("none",   *)
(* "acquire", "wait" or "release") and the image index it hands out.       *)
(* Result: the calls of views i..n-1 in order, and whether the loop read a *)
(* per-view buffer that is null or was never written.                      *)
(***************************************************************************)
SwapchainValid(sc, i) ==
    /\ ~sc.null
    /\ i < Len(sc.elems)
    /\ sc.elems[i + 1] = "valid"

ImagesValid(im, i) ==
    /\ ~im.null
    /\ i < Len(im.elems)
    /\ im.elems[i + 1] = "filled"

\* A loop that leaves only when the release call fails.
breaksOnReleaseOnly(x) == x.fail = "release"

\* if (!xrCheck(...)) break;   after acquire, wait and release
breaksLoop(x) == x.fail # "none"

\* A callback argument that is always the first image of the swapchain.
renderImageFirst(im, i, index) == IF ImagesValid(im, i) THEN ImageHandle(i, 0) ELSE 0

\* m_swapchainsImages[i][acquired_index].image
renderImage(im, i, index) == IF ImagesValid(im, i) THEN ImageHandle(i, index) ELSE 0

\* The calls of one pass through the loop body, for view i.  The acquire
\* entry carries the texture of the image the runtime handed out.
viewCalls(i, x, im) ==
    LET acquire == [call |-> "xrAcquireSwapchainImage", view |-> i,
                    ok |-> x.fail # "acquire",
                    image |-> IF x.fail # "acquire" THEN ImageHandle(i, x.index) ELSE -1]
        wait == ViewCall("xrWaitSwapchainImage", i, x.fail # "wait")
        release == ViewCall("xrReleaseSwapchainImage", i, x.fail # "release")
    IN CASE x.fail = "acquire" -> <<acquire>>
         [] x.fail = "wait" -> <<acquire, wait>>
         [] OTHER -> <<acquire, wait, RenderCall(i, renderImage(im, i, x.index)), release>>

RECURSIVE renderViews(_, _, _, _, _, _, _)
renderViews(i, n, r, sc, im, vw, pv) ==
    IF i >= n
    THEN [calls |-> <<>>, badRead |-> FALSE]
    ELSE LET x == r[i + 1]
             bad == \/ ~SwapchainValid(sc, i)
                    \/ /\ x.fail \notin {"acquire", "wait"}
                       /\ (vw = "null" \/ pv = "null" \/ ~ImagesValid(im, i))
             rest == IF breaksLoop(x)
                     THEN [calls |-> <<>>, badRead |-> FALSE]
                     ELSE renderViews(i + 1, n, r, sc, im, vw, pv)
         IN [calls |-> viewCalls(i, x, im) \o rest.calls,
             badRead |-> bad \/ rest.badRead]

(***************************************************************************)
(* bool OpenXRHMD::submitFrame(RenderFunc renderFunc)                      *)
(* reported: updateRefreshReport() was called (after the per-view loop,    *)
(* before xrEndFrame).                                                     *)
(***************************************************************************)
\* A submit that enters the per-view loop whatever shouldRender() says.
submitFrameAlwaysRenders(sr, n, beginOk, r, endOk, sc, im, vw, pv) ==
    IF ~beginOk
    THEN [result |-> FALSE, calls |-> <<Call("xrBeginFrame", FALSE)>>, badRead |-> FALSE,
          reported |-> FALSE]
    ELSE LET loop == renderViews(0, n, r, sc, im, vw, pv)
         IN [result |-> endOk,
             calls |-> <<Call("xrBeginFrame", TRUE)>> \o loop.calls
                         \o <<EndFrame(endOk, 1)>>,
             badRead |-> loop.badRead, reported |-> TRUE]

submitFrame(sr, n, beginOk, r, endOk, sc, im, vw, pv) ==
    IF ~sr
    THEN LET e == submitFrameEmpty(beginOk, endOk)
         IN [result |-> TRUE, calls |-> e.calls, badRead |-> FALSE, reported |-> FALSE]
    ELSE IF ~beginOk
    THEN [result |-> FALSE, calls |-> <<Call("xrBeginFrame", FALSE)>>, badRead |-> FALSE,
          reported |-> FALSE]
    ELSE LET loop == renderViews(0, n, r, sc, im, vw, pv)
         IN [result |-> endOk,
             calls |-> <<Call("xrBeginFrame", TRUE)>> \o loop.calls
                         \o <<EndFrame(endOk, 1)>>,
             badRead |-> loop.badRead, reported |-> TRUE]

(***************************************************************************)
(* int64_t selectSwapchainFormat(instance, session, preferred_format,      *)
(*                               fallback)                  OpenXRHelper.hpp *)
(* ok, formats: what the two xrEnumerateSwapchainFormats calls yield;      *)
(* beyond: what swapchain_formats[0] holds when the list is empty (a read  *)
(* beyond the allocation).                                                 *)
(***************************************************************************)
\* The format createSwapchain asks for (GL_SRGB8_ALPHA8_EXT, 0x8C43).
GL_SRGB8_ALPHA8_EXT == 35907

\* for (i = 0; i < swapchain_format_count; i++)
\*     if (swapchain_formats[i] == preferred_format) { chosen_format = ...; break; }
RECURSIVE formatLoop(_, _, _, _)
formatLoop(i, formats, preferred_format, chosen_format) ==
    IF i >= Len(formats) THEN chosen_format
    ELSE IF formats[i + 1] = preferred_format THEN formats[i + 1]
    ELSE formatLoop(i + 1, formats, preferred_format, chosen_format)

\* A selection that takes the first format of the list whatever follows.
selectSwapchainFormatFirst(ok, formats, preferred_format, fallback, beyond) ==
    IF ~ok THEN -1
    ELSE IF formats = <<>> THEN beyond ELSE formats[1]

selectSwapchainFormat(ok, formats, preferred_format, fallback, beyond) ==
    IF ~ok THEN -1
    ELSE LET first == IF formats = <<>> THEN beyond ELSE formats[1]
         IN formatLoop(0, formats, preferred_format, IF fallback THEN first ELSE -1)

(***************************************************************************)
(* bool OpenXRHMD::createSwapchain()                                       *)
(* fmtOk: the two xrEnumerateSwapchainFormats calls succeed; r[i+1]: the   *)
(* call that fails for view i ("create", "enum1", "enum2") or "ok".  The   *)
(* three arrays are malloc'ed with uninitialised elements; a failing call  *)
(* returns at once and leaves what was written.                            *)
(***************************************************************************)
\* created: swapchain_create_info.format of the xrCreateSwapchain calls
\* issued so far, one per view.
RECURSIVE swapchainLoop(_, _, _, _, _, _, _)
swapchainLoop(i, n, r, sc, im, format, created) ==
    IF i >= n
    THEN [ok |-> TRUE, sc |-> sc, im |-> im, created |-> created]
    ELSE LET issued == Append(created, format)
         IN CASE r[i + 1] = "create" ->
                  [ok |-> FALSE, sc |-> sc, im |-> im, created |-> issued]
           [] r[i + 1] = "enum1" ->
                  [ok |-> FALSE, sc |-> [sc EXCEPT ![i + 1] = "valid"], im |-> im,
                   created |-> issued]
           [] r[i + 1] = "enum2" ->
                  [ok |-> FALSE, sc |-> [sc EXCEPT ![i + 1] = "valid"],
                   im |-> [im EXCEPT ![i + 1] = "unfilled"], created |-> issued]
           [] OTHER ->
                  swapchainLoop(i + 1, n, r, [sc EXCEPT ![i + 1] = "valid"],
                                [im EXCEPT ![i + 1] = "filled"], format, issued)

\* adv: what selectSwapchainFormat's own enumeration yields (ok, list).
createSwapchain(n, fmtOk, adv, r, sc, im, vw, pv) ==
    IF ~fmtOk
    THEN [ok |-> FALSE, sc |-> sc, im |-> im, vw |-> vw, pv |-> pv, created |-> <<>>]
    ELSE LET color_format == selectSwapchainFormat(adv.ok, adv.list,
                                                   GL_SRGB8_ALPHA8_EXT, TRUE, adv.beyond)
             fresh == [k \in 1..n |-> "uninit"]
             loop == swapchainLoop(0, n, r, fresh, fresh, color_format, <<>>)
         IN IF loop.ok
            THEN [ok |-> TRUE, sc |-> Array(loop.sc), im |-> Array(loop.im),
                  vw |-> "alloc", pv |-> "alloc", created |-> loop.created]
            ELSE [ok |-> FALSE, sc |-> Array(loop.sc), im |-> Array(loop.im),
                  vw |-> vw, pv |-> pv, created |-> loop.created]

(***************************************************************************)
(* bool OpenXRHMD::startSession(T graphicsBindingGL)                       *)
(* glewInit, then createSession && createReferenceSpace &&                 *)
(* createSwapchain && synchronizeSession: the stages started, in order,    *)
(* each with its result.  synchronizeSession is appended when it returns.  *)
(***************************************************************************)
Stage(name, ok) == [stage |-> name, ok |-> ok]

\* A start that runs every stage whatever the earlier ones returned.
startSessionStagesAll(glewOk, csOk, rsOk, scOk) ==
    IF ~glewOk THEN <<>>
    ELSE <<Stage("createSession", csOk), Stage("createReferenceSpace", rsOk),
           Stage("createSwapchain", scOk)>>

startSessionStages(glewOk, csOk, rsOk, scOk) ==
    IF ~glewOk THEN <<>>
    ELSE IF ~csOk THEN <<Stage("createSession", FALSE)>>
    ELSE IF ~rsOk THEN <<Stage("createSession", TRUE), Stage("createReferenceSpace", FALSE)>>
    ELSE <<Stage("createSession", TRUE), Stage("createReferenceSpace", TRUE),
           Stage("createSwapchain", scOk)>>

StageStarted(stages, name) == \E k \in 1..Len(stages) : stages[k].stage = name

StageOk(stages, name) == \E k \in 1..Len(stages) : stages[k].stage = name /\ stages[k].ok

AllStagesOk(stages) ==
    /\ Len(stages) = 3
    /\ \A k \in 1..Len(stages) : stages[k].ok

(***************************************************************************)
(* The per-eye accessors: getPoseOrientation, getPoseQuaternion,           *)
(* getPosePosition, getFieldOfView, getScreenCenter.                       *)
(* eye: the Eye given (LEFT = 0, RIGHT = 1); n: m_viewCount.  Result: the  *)
(* value returned ("zero", "view": computed from views[viewIndex], or what *)
(* an object that was never written holds) and the element of views that   *)
(* was read (-1: none).                                                    *)
(***************************************************************************)
\* enum class Eye { LEFT = 0, RIGHT = 1 }
Eye == {0, 1}

\* static_cast<uint32_t>(eye)
eyeToViewIndex(eye) == eye

\* What an object holds that no constructor or assignment has written.
Indeterminate == {"zero", "nonzero"}

FromView(viewIndex) == [value |-> "view", read |-> viewIndex]

NoView(value) == [value |-> value, read |-> -1]

\* return Vector3f::Zero();
getPoseOrientation(eye, n) ==
    IF eyeToViewIndex(eye) >= n THEN NoView("zero") ELSE FromView(eyeToViewIndex(eye))

\* return Quaternionf();   the default constructor of Eigen::Quaternion
\* leaves the coefficients uninitialized: q is what they hold
getPoseQuaternion(eye, n, q) ==
    IF eyeToViewIndex(eye) >= n THEN NoView(q) ELSE FromView(eyeToViewIndex(eye))

\* return Vector3f::Zero();
getPosePosition(eye, n) ==
    IF eyeToViewIndex(eye) >= n THEN NoView("zero") ELSE FromView(eyeToViewIndex(eye))

\* return Vector4f::Zero();
getFieldOfView(eye, n) ==
    IF eyeToViewIndex(eye) >= n THEN NoView("zero") ELSE FromView(eyeToViewIndex(eye))

\* return Vector2f::Zero();
getScreenCenter(eye, n) ==
    IF eyeToViewIndex(eye) >= n THEN NoView("zero") ELSE FromView(eyeToViewIndex(eye))

Accessor == {"getPoseOrientation", "getPoseQuaternion", "getPosePosition",
             "getFieldOfView", "getScreenCenter"}

(***************************************************************************)
(* bool OpenXRHMD::init()                                                  *)
(* fail: the first discovery stage that fails ("none": all succeed);       *)
(* n: the view count the runtime reports.                                  *)
(***************************************************************************)
InitFailure == {"none", "enumExtensions", "noOpenGL", "createInstance", "loadExtensions",
                "getSystem", "viewCount", "enumViews", "graphicsRequirements"}

\* init() succeeds, or fails before the instance exists
InstanceFailure == {"none", "createInstance"}

\* The discovery stages in the order init goes through them, each named by
\* its failure.
InitOrder == <<"enumExtensions", "noOpenGL", "createInstance", "loadExtensions",
               "getSystem", "viewCount", "enumViews", "graphicsRequirements">>

\* The stages init goes through when `fail` is the first that fails, each
\* with its result.
initStages(fail) ==
    LET at == IF fail = "none" THEN Len(InitOrder)
              ELSE CHOOSE k \in 1..Len(InitOrder) : InitOrder[k] = fail
    IN [k \in 1..at |-> Stage(InitOrder[k], InitOrder[k] # fail)]

\* Vector2i OpenXRHMD::getRecommendedResolution() const
getRecommendedResolution(n) == IF n > 0 THEN "recommended" ELSE "zero"

\* An init that returns true whatever the graphics requirements query says.
initIgnoresRequirements(fail, n, instance, viewCount, resolution) ==
    [instance |-> IF fail \in {"enumExtensions", "noOpenGL", "createInstance"}
                  THEN instance ELSE "handle",
     viewCount |-> IF fail \in {"none", "enumViews", "graphicsRequirements"}
                   THEN n ELSE viewCount,
     resolution |-> IF fail \in {"none", "graphicsRequirements"}
                    THEN getRecommendedResolution(n)
                    ELSE resolution,
     stages |-> initStages(fail),
     result |-> fail \in {"none", "graphicsRequirements"}]

init(fail, n, instance, viewCount, resolution) ==
    [instance |-> IF fail \in {"enumExtensions", "noOpenGL", "createInstance"}
                  THEN instance ELSE "handle",
     viewCount |-> IF fail \in {"none", "enumViews", "graphicsRequirements"}
                   THEN n ELSE viewCount,
     \* m_resolution = getRecommendedResolution()
     resolution |-> IF fail \in {"none", "graphicsRequirements"}
                    THEN getRecommendedResolution(n)
                    ELSE resolution,
     stages |-> initStages(fail),
     result |-> fail = "none"]

(***************************************************************************)
(* void OpenXRHMD::setResolution(const Eigen::Vector2i &resolution)        *)
(***************************************************************************)
\* A setter that stores the resolution whatever the session does.
setResolutionAlways(status, stored, resolution) == resolution

setResolution(status, stored, resolution) ==
    IF ~isSessionRunning(status) THEN resolution ELSE stored

(***************************************************************************)
(* void OpenXRHMD::updateRefreshReport()                                   *)
(* late: m_lastFrameState.predictedDisplayTime - now_ns < 0.  Result: the  *)
(* accumulating report and the published one.                              *)
(***************************************************************************)
\* if (m_currentFrameRefreshReport.totalRenderedFrames == 100)
ReportWindow == 100

\* An update that publishes the window and goes on counting in it.
updateRefreshReportNoRestart(current, published, late) ==
    LET counted == [nbMissedFrames |-> current.nbMissedFrames + (IF late THEN 1 ELSE 0),
                    totalRenderedFrames |-> current.totalRenderedFrames + 1]
    IN IF counted.totalRenderedFrames = ReportWindow
       THEN [current |-> counted, published |-> counted]
       ELSE [current |-> counted, published |-> published]

\* An update that counts a missed frame when the frame is in time.
updateRefreshReportInverted(current, published, late) ==
    LET counted == [nbMissedFrames |-> current.nbMissedFrames + (IF late THEN 0 ELSE 1),
                    totalRenderedFrames |-> current.totalRenderedFrames + 1]
    IN IF counted.totalRenderedFrames = ReportWindow
       THEN [current |-> NoReport, published |-> counted]
       ELSE [current |-> counted, published |-> published]

updateRefreshReport(current, published, late) ==
    LET counted == [nbMissedFrames |-> current.nbMissedFrames + (IF late THEN 1 ELSE 0),
                    totalRenderedFrames |-> current.totalRenderedFrames + 1]
    IN IF counted.totalRenderedFrames = ReportWindow
       THEN [current |-> NoReport, published |-> counted]
       ELSE [current |-> counted, published |-> published]

\* const FrameRefreshReport &OpenXRHMD::getRefreshReport() const
getRefreshReport(published) == published

\* A closeSession that requests an exit in Idle too.
closeSessionEntryExitsIdle(status, session, destroyOk, exitOk) ==
    IF status # "STOPPED"
    THEN IF exitOk
         THEN [status |-> status, session |-> session, loop |-> TRUE, result |-> TRUE,
               calls |-> <<Call("xrRequestExitSession", TRUE)>>]
         ELSE [status |-> "FAILURE", session |-> session, loop |-> FALSE, result |-> FALSE,
               calls |-> <<Call("xrRequestExitSession", FALSE)>>]
    ELSE [status |-> status, session |-> session, loop |-> FALSE,
          result |-> status # "STOPPED", calls |-> <<>>]

(***************************************************************************)
(* bool OpenXRHMD::closeSession() up to its polling loop                   *)
(* loop: the call goes on to `while (isSessionRunning()) pollEvents()`;    *)
(* otherwise result is what it returns.                                    *)
(***************************************************************************)
closeSessionEntry(status, session, destroyOk, exitOk) ==
    IF status = "IDLE"
    THEN [status |-> "STOPPED", session |-> "null", loop |-> FALSE, result |-> FALSE,
          calls |-> <<Call("xrDestroySession", destroyOk)>>]
    ELSE IF status # "STOPPED"
    THEN IF exitOk
         THEN [status |-> status, session |-> session, loop |-> TRUE, result |-> TRUE,
               calls |-> <<Call("xrRequestExitSession", TRUE)>>]
         ELSE [status |-> "FAILURE", session |-> session, loop |-> FALSE, result |-> FALSE,
               calls |-> <<Call("xrRequestExitSession", FALSE)>>]
    ELSE [status |-> status, session |-> session, loop |-> FALSE,
          result |-> status # "STOPPED", calls |-> <<>>]

(***************************************************************************)
(* bool OpenXRHMD::terminate() after its closeSession() call               *)
(***************************************************************************)
terminateInstance(status, instance, destroyOk) ==
    IF instance = "null"
    THEN [status |-> status, instance |-> instance, result |-> TRUE, calls |-> <<>>]
    ELSE IF destroyOk
    THEN [status |-> status, instance |-> "null", result |-> TRUE,
          calls |-> <<Call("xrDestroyInstance", TRUE)>>]
    ELSE [status |-> "FAILURE", instance |-> instance, result |-> FALSE,
          calls |-> <<Call("xrDestroyInstance", FALSE)>>]

(***************************************************************************)
(* The runtime's side of the calls.                                        *)
(* Handles: a successful create call makes a handle live; a successful     *)
(* destroy call destroys it and, with it, the handles created from it; a   *)
(* destroy call that fails leaves it live.                                 *)
(***************************************************************************)
Live(h) == h \in {"live", "failed"}

Gone(h) == IF h \in {"live", "failed"} THEN "dropped" ELSE h

HandleAfter(h, c) ==
    CASE c.call = "xrCreateInstance" /\ c.ok ->
             [h EXCEPT !.instance = "live", !.redestroyed = FALSE]
      [] c.call = "xrCreateSession" /\ c.ok -> [h EXCEPT !.session = "live"]
      [] c.call = "xrCreateReferenceSpace" /\ c.ok -> [h EXCEPT !.space = "live"]
      [] c.call = "xrCreateSwapchain" /\ c.ok -> [h EXCEPT !.swapchains = "live"]
      [] c.call = "xrDestroySession" ->
             IF c.ok
             THEN [h EXCEPT !.session = "destroyed", !.space = Gone(@),
                            !.swapchains = Gone(@)]
             ELSE [h EXCEPT !.session = IF Live(@) THEN "failed" ELSE @]
      [] c.call = "xrDestroyInstance" ->
             LET again == h.redestroyed \/ h.instance \in {"failed", "destroyed"}
             IN IF c.ok
                THEN [instance |-> "destroyed", session |-> Gone(h.session),
                      space |-> Gone(h.space), swapchains |-> Gone(h.swapchains),
                      redestroyed |-> again]
                ELSE [h EXCEPT !.instance = IF Live(@) THEN "failed" ELSE @,
                               !.redestroyed = again]
      [] OTHER -> h

RECURSIVE HandlesAfter(_, _)
HandlesAfter(h, calls) ==
    IF calls = <<>> THEN h ELSE HandlesAfter(HandleAfter(h, Head(calls)), Tail(calls))

\* Some call of `calls` destroys a handle while a handle created from it is
\* live.
RECURSIVE ParentDestroyedFirst(_, _)
ParentDestroyedFirst(h, calls) ==
    IF calls = <<>> THEN FALSE
    ELSE LET c == Head(calls)
         IN \/ c.call = "xrDestroyInstance" /\ Live(h.session)
            \/ c.call = "xrDestroySession" /\ (Live(h.space) \/ Live(h.swapchains))
            \/ ParentDestroyedFirst(HandleAfter(h, c), Tail(calls))

\* The frame loop after one call.
SyncStep(s, c) ==
    CASE c.call = "xrWaitFrame" -> [pending |-> "waited", waitOk |-> s.waitOk \/ c.ok]
      [] c.call = "xrBeginFrame" -> [pending |-> "begun", waitOk |-> FALSE]
      [] c.call = "xrEndFrame" ->
             [s EXCEPT !.pending = IF @ = "begun" THEN "none" ELSE @]
      [] OTHER -> s

RECURSIVE SyncAfter(_, _)
SyncAfter(s, calls) ==
    IF calls = <<>> THEN s ELSE SyncAfter(SyncStep(s, Head(calls)), Tail(calls))

\* Some xrWaitFrame of `calls` follows an xrWaitFrame with no
\* xrBeginFrame / xrEndFrame pair between the two.
RECURSIVE WaitsTwice(_, _)
WaitsTwice(s, calls) ==
    IF calls = <<>> THEN FALSE
    ELSE \/ Head(calls).call = "xrWaitFrame" /\ s.pending # "none"
         \/ WaitsTwice(SyncStep(s, Head(calls)), Tail(calls))

\* Some xrBeginFrame of `calls` has no successful xrWaitFrame since the
\* xrBeginFrame before it.
RECURSIVE BeginsUnwaited(_, _)
BeginsUnwaited(s, calls) ==
    IF calls = <<>> THEN FALSE
    ELSE \/ Head(calls).call = "xrBeginFrame" /\ ~s.waitOk
         \/ BeginsUnwaited(SyncStep(s, Head(calls)), Tail(calls))

(***************************************************************************)
(* Inputs                                                                  *)
(***************************************************************************)
\* What xrPollEvent delivers and how the runtime answers the call the event
\* leads to.  An instance-loss event falls through into the session-state
\* case (no break), which reads `state` from a buffer that holds no session
\* state: any value.  Fields that are not read have one fixed value.
EventInput ==
    {[kind |-> k, state |-> "UNKNOWN", callOk |-> TRUE, destroyOk |-> TRUE] :
        k \in {"none", "error", "profile", "other"}}
    \cup {[kind |-> "state", state |-> s, callOk |-> c, destroyOk |-> TRUE] :
            s \in XrSessionState, c \in BOOLEAN}
    \cup {[kind |-> "loss", state |-> s, callOk |-> c, destroyOk |-> d] :
            s \in XrSessionState, c \in BOOLEAN, d \in BOOLEAN}

\* How the runtime answers waitNextFrame's calls.
WaitInput ==
    {w \in [waitOk : BOOLEAN, sr : BOOLEAN, locateOk : BOOLEAN] :
        ~w.waitOk => (~w.sr /\ w.locateOk)}

\* The answers of a runtime whose xrWaitFrame and xrLocateViews succeed.
QuietWait == {w \in WaitInput : w.waitOk /\ w.locateOk}

\* How the runtime answers xrBeginFrame and xrEndFrame.
FrameInput == {f \in [beginOk : BOOLEAN, endOk : BOOLEAN] : ~f.beginOk => f.endOk}

\* How the runtime answers the wait/submit pump of pollEvents.
PumpInput == [wait : WaitInput, frame : FrameInput]

\* The pump of a runtime whose frame calls all succeed.
QuietPump ==
    {[wait |-> [waitOk |-> TRUE, sr |-> TRUE, locateOk |-> TRUE],
      frame |-> [beginOk |-> TRUE, endOk |-> TRUE]]}

\* The events of a runtime whose calls succeed.
OkEventInput == {e \in EventInput : e.callOk /\ e.destroyOk}

\* Session-state-change events and empty polls only.
StateEventInput == {e \in EventInput : e.kind \in {"none", "state"}}

\* Session-state-change events, empty polls, and instance-loss events after
\* which the session-state case reads Unknown or Exiting.
LifetimeEventInput ==
    StateEventInput
    \cup {e \in EventInput : e.kind = "loss" /\ e.state \in {"UNKNOWN", "EXITING"}}

\* The events of a session start: Ready, Synchronized, or nothing.
StartEventInput ==
    {e \in EventInput : e.kind = "none"
                         \/ (e.kind = "state" /\ e.state \in {"READY", "SYNCHRONIZED"})}

\* A runtime that queues no event of its own in answer to an exit request.
NoAnswer == <<>>

\* A runtime that answers an exit request with Stopping, then Idle, then
\* Exiting.
ExitAnswer == <<"STOPPING", "IDLE", "EXITING">>

\* The formats a runtime advertises: the preferred one, GL_RGBA8 (0x8058)
\* and GL_RGBA16F (0x881A).
Format == {GL_SRGB8_ALPHA8_EXT, 32856, 34842}

\* What selectSwapchainFormat's enumeration yields: a failure, or a list of
\* one to MaxFormats formats.
Advertised(ok, list) == [ok |-> ok, list |-> list, beyond |-> -1]

FormatInput ==
    {Advertised(FALSE, <<>>)}
    \cup {Advertised(TRUE, l) : l \in UNION {[1..k -> Format] : k \in 1..MaxFormats}}

\* A runtime that advertises the preferred format only.
QuietFormat == {Advertised(TRUE, <<GL_SRGB8_ALPHA8_EXT>>)}

\* How the runtime answers the swapchain calls of one view.
ViewInput ==
    {[fail |-> "acquire", index |-> 0]}
    \cup [fail : {"none", "wait", "release"}, index : 0..(NumImages - 1)]

DefaultViews(n) == [k \in 1..n |-> [fail |-> "none", index |-> 0]]

\* The per-view answers for views i..n-1; the views after a failing one are
\* not visited and have one fixed value.
RECURSIVE ViewInputs(_, _)
ViewInputs(i, n) ==
    IF i >= n THEN {<<>>}
    ELSE {<<x>> \o t : x \in {y \in ViewInput : y.fail = "none"}, t \in ViewInputs(i + 1, n)}
         \cup {<<x>> \o DefaultViews(n - i - 1) : x \in {y \in ViewInput : y.fail # "none"}}

\* The per-view answers to createSwapchain's calls, likewise.
RECURSIVE SwapchainInputs(_, _)
SwapchainInputs(i, n) ==
    IF i >= n THEN {<<>>}
    ELSE {<<"ok">> \o t : t \in SwapchainInputs(i + 1, n)}
         \cup {<<x>> \o [k \in 1..(n - i - 1) |-> "ok"] : x \in {"create", "enum1", "enum2"}}

\* The record of a step of operation op, with the state it found.
Did(op) ==
    [NoLast EXCEPT !.op = op, !.pre = m_status, !.preSession = m_session,
                   !.preViewCount = m_viewCount, !.preResolution = m_resolution,
                   !.preHandles = handles, !.preSync = frameSync,
                   !.preCurrentReport = m_currentFrameRefreshReport,
                   !.preLastReport = m_lastFrameRefreshReport,
                   !.prePredicted = predictedDisplay]

\* Where control goes when the running call returns to the frame on top of
\* the stack (the caller of the API when the stack is empty).
ReturnTo(stk) ==
    IF stk = <<>> THEN "ready"
    ELSE CASE stk[Len(stk)] = "sync" -> "syncPolled"
           [] stk[Len(stk)] = "close" -> "closeLoop"
           [] stk[Len(stk)] = "terminate" -> "terminateInstance"
           [] stk[Len(stk)] = "dtor" -> "dtorTerminate"
           [] stk[Len(stk)] = "render" -> "renderWait"

\* The running call was made by OpenXRHMD::~OpenXRHMD.
InDestructor(stk) == stk # <<>> /\ stk[1] = "dtor"

Pop(stk) == SubSeq(stk, 1, Len(stk) - 1)

\* The run of consecutive Ready (or Stopping) session-state-change events:
\* its length, the begin-session (end-session) requests issued for its
\* events, and how many of those requests failed.
RunAfter(r, kind, state, call, callOk) ==
    IF kind # "state" THEN r
    ELSE IF state \notin {"READY", "STOPPING"} THEN NoRun
    ELSE LET base == IF r.state = state THEN r ELSE [NoRun EXCEPT !.state = state]
         IN [base EXCEPT !.len = @ + 1,
                         !.reqs = @ + (IF call # "none" THEN 1 ELSE 0),
                         !.failures = @ + (IF call # "none" /\ ~callOk THEN 1 ELSE 0)]

(***************************************************************************)
(* Actions.  Where an action takes a set of inputs, the specification      *)
(* chooses how much of the runtime's freedom it explores.                  *)
(* The caller: init comes first; the frame loop (waitNextFrame, then a     *)
(* submitFrame if it returned true, as OpenXRRdrMode::render does) is run  *)
(* once startSession has returned true, which is when the session "is      *)
(* waiting for frame loop rendering" (OpenXRHMD.hpp).                      *)
(* The runtime: session-state-change events are about a session, so they   *)
(* are delivered while one exists.                                         *)
(***************************************************************************)
buffers == <<m_swapchains, m_swapchainsImages, views, m_projectionViews>>

reports == <<m_currentFrameRefreshReport, m_lastFrameRefreshReport>>

AppCallbacks == <<"idle", "visible", "focused">>

\* The view counts xrLocateViews may report: the count of the view
\* configuration, as init got it, or any count.
SameCount == {m_viewCount}

AnyCount == 0..MaxViews

\* The answers to the swapchain calls of the per-view loop: any, or those of
\* a runtime whose swapchain calls succeed.
AnyViews == ViewInputs(0, m_viewCount)

QuietViews == {DefaultViews(m_viewCount)}

\* The answers of a runtime whose first xrAcquireSwapchainImage fails.
BrokenViews ==
    {[DefaultViews(m_viewCount) EXCEPT ![1] = [fail |-> "acquire", index |-> 0]]}

\* The resolutions the caller asks for.
ResolutionInput == Resolution \ {"zero"}

\* init(); fails: the steps the runtime may fail, counts: the view counts
\* it may report
XrInit(fails, counts) ==
    /\ pc = "ready"
    /\ m_instance = "null"
    /\ \E fail \in fails, n \in counts :
         LET r == init(fail, n, m_instance, m_viewCount, m_resolution)
             calls == IF fail \in {"enumExtensions", "noOpenGL"} THEN <<>>
                      ELSE <<Call("xrCreateInstance", fail # "createInstance")>>
         IN /\ (r.viewCount = m_viewCount => \A k \in counts : n <= k)
            /\ m_instance' = r.instance
            /\ m_viewCount' = r.viewCount
            /\ m_resolution' = r.resolution
            /\ handles' = HandlesAfter(handles, calls)
            /\ last' = [Did("init") EXCEPT !.calls = calls, !.returned = TRUE,
                                           !.result = r.result, !.stages = r.stages]
    /\ UNCHANGED <<predictedDisplay, closing, reports, m_status, m_session, m_playSpace, buffers, shouldRender, callbacks,
                   sessionCreated, pc, stack, run, failed, frameSync>>

\* setIdleAppCallback, setVisibleAppCallback, setFocusedAppCallback, called
\* in the order OpenXRRdrMode's constructor calls them
SetAppCallback ==
    /\ pc = "ready"
    /\ \E k \in 1..Len(AppCallbacks) :
         /\ AppCallbacks[k] \notin callbacks
         /\ \A j \in 1..(k - 1) : AppCallbacks[j] \in callbacks
         /\ callbacks' = callbacks \cup {AppCallbacks[k]}
    /\ last' = Did("setAppCallback")
    /\ UNCHANGED <<predictedDisplay, closing, reports, m_status, m_instance, m_session, m_playSpace, m_viewCount,
                   m_resolution, buffers, shouldRender, sessionCreated, pc, stack, run,
                   failed, handles, frameSync>>

\* One of the per-eye accessors, called for either eye
Query ==
    /\ pc = "ready"
    /\ \E a \in Accessor, eye \in Eye, q \in Indeterminate :
         LET r == CASE a = "getPoseOrientation" -> getPoseOrientation(eye, m_viewCount)
                    [] a = "getPoseQuaternion" -> getPoseQuaternion(eye, m_viewCount, q)
                    [] a = "getPosePosition" -> getPosePosition(eye, m_viewCount)
                    [] a = "getFieldOfView" -> getFieldOfView(eye, m_viewCount)
                    [] a = "getScreenCenter" -> getScreenCenter(eye, m_viewCount)
         IN \* q is read by getPoseQuaternion's early return only
            /\ (~(a = "getPoseQuaternion" /\ eyeToViewIndex(eye) >= m_viewCount)
                  => q = "zero")
            /\ last' = [Did("query") EXCEPT
                          !.query = a, !.eye = eye, !.value = r.value,
                          !.readView = r.read,
                          !.badRead = (r.read # -1 /\ views = "null"),
                          !.returned = TRUE]
    /\ UNCHANGED <<predictedDisplay, closing, reports, m_status, m_instance, m_session, m_playSpace, m_viewCount,
                   m_resolution, buffers, shouldRender, callbacks, sessionCreated, pc,
                   stack, run, failed, handles, frameSync>>

\* setResolution(resolution)
SetResolution ==
    /\ pc = "ready"
    /\ \E r \in ResolutionInput :
         /\ m_resolution' = setResolution(m_status, m_resolution, r)
         /\ last' = [Did("setResolution") EXCEPT !.arg = r, !.returned = TRUE]
    /\ UNCHANGED <<predictedDisplay, closing, reports, m_status, m_instance, m_session, m_playSpace, m_viewCount, buffers,
                   shouldRender, callbacks, sessionCreated, pc, stack, run, failed,
                   handles, frameSync>>

\* startSession(), up to the first pollEvents() of synchronizeSession.
\* stageFails: glewInit, xrCreateSession and xrCreateReferenceSpace may fail;
\* swapchainFails: the runtime may fail createSwapchain's calls; advertised:
\* the swapchain formats it may advertise.
StartSession(stageFails, swapchainFails, advertised) ==
    /\ pc = "ready"
    /\ m_instance # "null"
    /\ \E glewOk \in BOOLEAN, csOk \in BOOLEAN, rsOk \in BOOLEAN, fmtOk \in BOOLEAN,
          r \in SwapchainInputs(0, m_viewCount), adv \in advertised :
         LET sw == createSwapchain(m_viewCount, fmtOk, adv, r, m_swapchains,
                                   m_swapchainsImages, views, m_projectionViews)
             stages == startSessionStages(glewOk, csOk, rsOk, sw.ok)
             doSession == StageStarted(stages, "createSession")
             doSpace == StageStarted(stages, "createReferenceSpace")
             doSwapchain == StageStarted(stages, "createSwapchain")
             doSync == AllStagesOk(stages)
             calls == (IF doSession THEN <<Call("xrCreateSession", csOk)>> ELSE <<>>)
                      \o (IF doSpace THEN <<Call("xrCreateReferenceSpace", rsOk)>> ELSE <<>>)
                      \o (IF doSwapchain /\ fmtOk /\ m_viewCount > 0
                          THEN <<Call("xrCreateSwapchain", r[1] # "create")>> ELSE <<>>)
             \* the list selectSwapchainFormat chose from, the formats asked for
             formats == IF doSwapchain /\ fmtOk /\ adv.ok THEN adv.list ELSE <<>>
             created == IF doSwapchain THEN sw.created ELSE <<>>
         IN \* inputs of stages that are not started have one fixed value
            /\ (~doSession => csOk) /\ (~doSpace => rsOk)
            /\ (~doSwapchain => (fmtOk /\ sw.ok))
            /\ (~fmtOk => \A k \in 1..Len(r) : r[k] = "ok")
            /\ (~swapchainFails => (fmtOk /\ sw.ok))
            /\ (~stageFails => (glewOk /\ csOk /\ rsOk))
            /\ ((~doSwapchain \/ ~fmtOk) => adv \in QuietFormat)
            /\ m_session' = IF doSession /\ csOk THEN "handle" ELSE m_session
            /\ failed' = IF doSession /\ csOk THEN FALSE ELSE failed
            /\ handles' = HandlesAfter(handles, calls)
            /\ frameSync' = IF doSession /\ csOk THEN NoSync ELSE frameSync
            /\ m_playSpace' = IF doSpace /\ rsOk THEN "handle" ELSE m_playSpace
            /\ m_swapchains' = IF doSwapchain THEN sw.sc ELSE m_swapchains
            /\ m_swapchainsImages' = IF doSwapchain THEN sw.im ELSE m_swapchainsImages
            /\ views' = IF doSwapchain THEN sw.vw ELSE views
            /\ m_projectionViews' = IF doSwapchain THEN sw.pv ELSE m_projectionViews
            /\ IF doSync /\ m_status # "SYNCHRONIZED"
               THEN \* synchronizeSession: while (m_status != SYNCHRONIZED) pollEvents()
                    /\ pc' = "poll"
                    /\ stack' = <<"sync">>
                    /\ sessionCreated' = FALSE
                    /\ last' = [Did("startSession") EXCEPT
                                  !.stages = stages, !.calls = calls,
                                  !.formats = formats, !.created = created]
               ELSE /\ pc' = "ready"
                    /\ stack' = stack
                    /\ sessionCreated' = doSync
                    /\ last' = [Did("startSession") EXCEPT
                                  !.returned = TRUE, !.result = doSync, !.calls = calls,
                                  !.formats = formats, !.created = created,
                                  !.stages = IF doSync
                                             THEN Append(stages, Stage("synchronizeSession", TRUE))
                                             ELSE stages]
    /\ UNCHANGED <<predictedDisplay, closing, reports, m_status, m_instance, m_viewCount, m_resolution, shouldRender,
                   callbacks, run>>

\* synchronizeSession(), after pollEvents() returned
SynchronizeSession ==
    /\ pc = "syncPolled"
    /\ LET stages == startSessionStages(TRUE, TRUE, TRUE, TRUE)
       IN IF m_status = "FAILURE" \/ m_status = "SYNCHRONIZED"
          THEN /\ pc' = "ready"
               /\ stack' = Pop(stack)
               /\ sessionCreated' = (m_status # "FAILURE")
               /\ last' = [Did("startSession") EXCEPT
                             !.returned = TRUE, !.result = (m_status # "FAILURE"),
                             !.stages = Append(stages, Stage("synchronizeSession",
                                                             m_status # "FAILURE"))]
          ELSE /\ pc' = "poll"
               /\ stack' = stack
               /\ sessionCreated' = sessionCreated
               /\ last' = [Did("synchronizeSession") EXCEPT !.stages = stages]
    /\ UNCHANGED <<predictedDisplay, closing, reports, m_status, m_instance, m_session, m_playSpace, m_viewCount,
                   m_resolution, buffers, shouldRender, callbacks, run, failed, handles,
                   frameSync>>

\* The caller calls pollEvents()
CallPollEvents ==
    /\ pc = "ready"
    /\ m_instance # "null"
    /\ pc' = "poll"
    /\ last' = Did("call pollEvents")
    /\ UNCHANGED <<predictedDisplay, closing, reports, m_status, m_instance, m_session, m_playSpace, m_viewCount,
                   m_resolution, buffers, shouldRender, callbacks, sessionCreated, stack,
                   run, failed, handles, frameSync>>

\* What xrPollEvent delivers: the first of the events the runtime holds in
\* answer to an exit request, the call it leads to succeeding; any of
\* `events` when the runtime holds none.
Delivered(events, pending) ==
    IF pending = <<>> THEN events
    ELSE {[kind |-> "state", state |-> Head(pending), callOk |-> TRUE,
           destroyOk |-> TRUE]}

\* A pump that runs in both transitory states.
pumpsFrameWhilePolling(status) == status = "BEGINNING" \/ status = "ENDING"

\* if (m_status == SessionStatus::BEGINNING) { waitNextFrame(); submitFrame(); }
pumpsFrame(status) == status = "BEGINNING"

\* A test that keeps polling while Beginning only.
keepPollingBeginning(status) == status = "BEGINNING"

\* bool keepPolling = m_status == BEGINNING || m_status == ENDING
keepPolling(status) == status = "BEGINNING" \/ status = "ENDING"

\* One activation of pollEvents(): xrPollEvent, the event switch, the
\* wait/submit pump while Beginning, then `return pollEvents()` (pc stays
\* "poll") or `return m_status != FAILURE`.
\* events, pumps, located: what the runtime may answer; followRun: whether
\* `run` follows the events.
PollIteration(events, pumps, located, followRun) ==
    /\ pc = "poll"
    /\ \E e \in Delivered(events, closing.pending) :
         LET afterLoss == IF e.kind = "loss" /\ ~e.destroyOk THEN "FAILURE" ELSE m_status
             u == IF e.kind \in {"state", "loss"}
                  THEN updateCurrentSessionState(afterLoss, m_session, callbacks,
                                                 e.state, e.callOk)
                  ELSE [status |-> m_status, session |-> m_session, call |-> "none",
                        cbs |-> <<>>]
             again == keepPolling(u.status)
             pump == pumpsFrame(u.status)
         IN /\ (e.kind = "state" => m_session # "null")
            /\ (u.call = "none" => e.callOk)
            /\ (followRun /\ e.kind = "state" /\ e.state \in {"READY", "STOPPING"}
                  /\ run.state = e.state) => run.len < MaxRun
            /\ \E p \in (IF pump THEN pumps ELSE QuietPump), k \in located \cup {m_viewCount} :
                 LET wt == waitNextFrame(p.wait.waitOk, p.wait.sr, p.wait.locateOk,
                                         m_viewCount, k)
                     sf == submitFrameEmpty(p.frame.beginOk, p.frame.endOk)
                     calls == <<Call("xrPollEvent", e.kind \notin {"none", "error"})>>
                              \o (IF e.kind = "loss"
                                  THEN <<Call("xrDestroyInstance", e.destroyOk)>>
                                  ELSE <<>>)
                              \o (IF u.call # "none"
                                  THEN <<Call(u.call, e.callOk)>> ELSE <<>>)
                              \o (IF pump THEN wt.calls \o sf.calls ELSE <<>>)
                 IN \* the count is read from a successful xrWaitFrame on only; a
                    \* count above the capacity is an error of xrLocateViews
                    /\ ((~pump \/ ~p.wait.waitOk) => k = m_viewCount)
                    /\ (k > m_viewCount => ~p.wait.locateOk)
                    /\ m_status' = u.status
                    /\ m_session' = u.session
                    /\ m_viewCount' = IF pump THEN wt.viewCount ELSE m_viewCount
                    /\ shouldRender' = IF pump THEN wt.shouldRender ELSE shouldRender
                    /\ predictedDisplay' = IF pump THEN wt.predicted ELSE predictedDisplay
                    /\ run' = IF followRun
                              THEN RunAfter(run, e.kind, e.state, u.call, e.callOk)
                              ELSE run
                    /\ failed' = (failed \/ afterLoss = "FAILURE" \/ u.status = "FAILURE")
                    /\ handles' = HandlesAfter(handles, calls)
                    /\ frameSync' = SyncAfter(frameSync, calls)
                    /\ closing' = IF closing.pending = <<>> THEN closing
                                  ELSE [closing EXCEPT
                                          !.pending = Tail(@),
                                          !.calls = IF u.call # "none"
                                                    THEN Append(@, u.call) ELSE @]
                    /\ pc' = IF again THEN "poll" ELSE ReturnTo(stack)
                    /\ last' = [Did("pollEvents") EXCEPT
                                  !.kind = e.kind, !.state = e.state,
                                  !.call = u.call, !.callOk = e.callOk, !.cbs = u.cbs,
                                  !.calls = calls,
                                  !.frameKind = IF pump THEN "empty" ELSE "none",
                                  !.frame = IF pump THEN sf.calls ELSE <<>>,
                                  !.returned = ~again,
                                  !.result = (u.status # "FAILURE")]
    /\ UNCHANGED <<reports, m_instance, m_playSpace, m_resolution, buffers, callbacks,
                   sessionCreated, stack>>

\* What waitNextFrame() does to the state; the caller goes on to submit if it
\* returned true.  waits: how the runtime may answer; located: the view
\* counts xrLocateViews may report.
WaitFrame(waits, located) ==
    \E w \in waits, k \in located \cup {m_viewCount} :
        LET wt == waitNextFrame(w.waitOk, w.sr, w.locateOk, m_viewCount, k)
        IN /\ (~w.waitOk => k = m_viewCount)
           /\ (k > m_viewCount => ~w.locateOk)
           /\ shouldRender' = wt.shouldRender
           /\ predictedDisplay' = wt.predicted
           /\ m_viewCount' = wt.viewCount
           /\ frameSync' = SyncAfter(frameSync, wt.calls)
           /\ pc' = IF wt.result THEN "waited" ELSE "ready"
           /\ last' = [Did("waitNextFrame") EXCEPT
                         !.calls = wt.calls, !.returned = TRUE, !.result = wt.result]

\* waitNextFrame(), called once startSession has returned true
WaitNextFrame(waits, located) ==
    /\ pc = "ready"
    /\ sessionCreated
    /\ WaitFrame(waits, located)
    /\ UNCHANGED <<closing, reports, m_status, m_instance, m_session, m_playSpace, m_resolution, buffers,
                   callbacks, sessionCreated, stack, run, failed, handles>>

\* OpenXRRdrMode::render(): if (!isSessionRunning()) return; pollEvents();
Render ==
    /\ pc = "ready"
    /\ m_instance # "null"
    /\ isSessionRunning(m_status)
    /\ pc' = "poll"
    /\ stack' = <<"render">>
    /\ last' = Did("render")
    /\ UNCHANGED <<predictedDisplay, closing, reports, m_status, m_instance, m_session, m_playSpace, m_viewCount,
                   m_resolution, buffers, shouldRender, callbacks, sessionCreated, run,
                   failed, handles, frameSync>>

\* OpenXRRdrMode::render(): if (!waitNextFrame()) return;
RenderWaitNextFrame(waits, located) ==
    /\ pc = "renderWait"
    /\ WaitFrame(waits, located)
    /\ stack' = Pop(stack)
    /\ UNCHANGED <<closing, reports, m_status, m_instance, m_session, m_playSpace, m_resolution, buffers,
                   callbacks, sessionCreated, run, failed, handles>>

\* What the clock says of the frame that is counted: in time (FALSE) or
\* late (TRUE).  The windows that are followed are those with at most
\* MaxMissed late frames and the one whose frames are all late.
ClockInput(current) ==
    (IF current.nbMissedFrames <= MaxMissed THEN {FALSE} ELSE {})
    \cup (IF \/ current.nbMissedFrames < MaxMissed
             \/ current.nbMissedFrames = current.totalRenderedFrames
          THEN {TRUE} ELSE {})

\* submitFrame(renderFunc).  followReport: whether the refresh report is
\* followed; it is written here and read by getRefreshReport only, so a
\* specification that does not follow it leaves the two reports as they are.
\* answers: what the runtime may answer to the swapchain calls.
SubmitStep(answers, followReport, unwaited) ==
    /\ \E f \in FrameInput, r \in answers, late \in BOOLEAN :
         LET sf == submitFrame(shouldRender, m_viewCount, f.beginOk, r, f.endOk,
                               m_swapchains, m_swapchainsImages, views, m_projectionViews)
             update == followReport /\ sf.reported
             rp == IF update
                   THEN updateRefreshReport(m_currentFrameRefreshReport,
                                            m_lastFrameRefreshReport, late)
                   ELSE [current |-> m_currentFrameRefreshReport,
                         published |-> m_lastFrameRefreshReport]
         IN \* the per-view answers are not read when the loop is not entered,
            \* the clock is not read when the report is not updated
            /\ ((~shouldRender \/ ~f.beginOk) => r = DefaultViews(m_viewCount))
            /\ late \in (IF update THEN ClockInput(m_currentFrameRefreshReport)
                          ELSE {FALSE})
            /\ m_currentFrameRefreshReport' = rp.current
            /\ m_lastFrameRefreshReport' = rp.published
            /\ frameSync' = SyncAfter(frameSync, sf.calls)
            /\ last' = [Did("submitFrame") EXCEPT
                          !.calls = sf.calls, !.frameKind = "render", !.frame = sf.calls,
                          !.preRender = shouldRender, !.badRead = sf.badRead,
                          !.returned = TRUE, !.result = sf.result,
                          !.late = late, !.reported = sf.reported,
                          !.unwaited = unwaited]
    /\ pc' = "ready"
    /\ UNCHANGED <<predictedDisplay, closing, m_status, m_instance, m_session, m_playSpace,
                   m_viewCount, m_resolution, buffers, shouldRender, callbacks,
                   sessionCreated, stack, run, failed, handles>>

\* submitFrame(renderFunc), called once waitNextFrame has returned true
SubmitFrame(answers, followReport) ==
    /\ pc = "waited"
    /\ SubmitStep(answers, followReport, FALSE)

\* submitFrame(renderFunc), called although the waitNextFrame before it
\* returned false because xrWaitFrame failed
SubmitAfterFailedWait(answers) ==
    /\ pc = "ready"
    /\ last.op = "waitNextFrame"
    /\ last.calls = <<Call("xrWaitFrame", FALSE)>>
    /\ SubmitStep(answers, FALSE, TRUE)

\* submitFrame()
SubmitEmptyFrame ==
    /\ pc = "waited"
    /\ \E f \in FrameInput :
         LET sf == submitFrameEmpty(f.beginOk, f.endOk)
         IN /\ frameSync' = SyncAfter(frameSync, sf.calls)
            /\ last' = [Did("submitFrame") EXCEPT
                          !.calls = sf.calls, !.frameKind = "empty", !.frame = sf.calls,
                          !.preRender = shouldRender, !.returned = TRUE,
                          !.result = sf.result]
    /\ pc' = "ready"
    /\ UNCHANGED <<predictedDisplay, closing, reports, m_status, m_instance, m_session, m_playSpace, m_viewCount,
                   m_resolution, buffers, shouldRender, callbacks, sessionCreated, stack,
                   run, failed, handles>>

\* closeSession(), up to the first pollEvents() of its loop.  base: the
\* callers below this call; done: where control goes if it returns at once;
\* answer: the session states the runtime queues when the exit request
\* succeeds (none: the events are the poll's own inputs).
CloseEntry(base, done, answer) ==
    /\ \E destroyOk \in BOOLEAN, exitOk \in BOOLEAN :
         LET c == closeSessionEntry(m_status, m_session, destroyOk, exitOk)
         IN /\ (m_status # "IDLE" => destroyOk)
            /\ (m_status \in {"IDLE", "STOPPED"} => exitOk)
            /\ m_status' = c.status
            /\ m_session' = c.session
            /\ failed' = (failed \/ c.status = "FAILURE")
            /\ handles' = HandlesAfter(handles, c.calls)
            /\ closing' = IF c.loop /\ answer # <<>>
                          THEN [pending |-> answer, calls |-> <<>>, pre |-> m_status]
                          ELSE closing
            /\ pc' = IF c.loop THEN "closeLoop" ELSE done
            /\ stack' = IF c.loop THEN Append(base, "close") ELSE base
            /\ last' = [Did("closeSession") EXCEPT
                          !.calls = c.calls, !.returned = ~c.loop, !.result = c.result,
                          !.destructor = (base # <<>>)]
    /\ UNCHANGED <<predictedDisplay, reports, m_instance, m_playSpace, m_viewCount,
                   m_resolution, buffers, shouldRender, callbacks, sessionCreated, run,
                   frameSync>>

\* The caller calls closeSession()
CloseSession(answer) ==
    /\ pc = "ready"
    /\ m_instance # "null"
    /\ CloseEntry(<<>>, "ready", answer)

\* OpenXRHMD::~OpenXRHMD(): closeSession(); terminate() follows
Destructor ==
    /\ pc = "ready"
    /\ CloseEntry(<<"dtor">>, "dtorTerminate", NoAnswer)

\* closeSession(): while (isSessionRunning()) pollEvents(); return m_status != STOPPED
CloseLoop ==
    /\ pc = "closeLoop"
    /\ IF isSessionRunning(m_status)
       THEN /\ pc' = "poll"
            /\ stack' = stack
            /\ last' = Did("closeSession loop")
       ELSE /\ pc' = ReturnTo(Pop(stack))
            /\ stack' = Pop(stack)
            /\ last' = [Did("closeSession") EXCEPT
                          !.returned = TRUE, !.result = (m_status # "STOPPED"),
                          !.destructor = InDestructor(stack), !.loop = TRUE]
    /\ UNCHANGED <<predictedDisplay, closing, reports, m_status, m_instance, m_session, m_playSpace, m_viewCount,
                   m_resolution, buffers, shouldRender, callbacks, sessionCreated, run,
                   failed, handles, frameSync>>

\* terminate(): closeSession() if the session is running, then the instance
Terminate ==
    /\ pc \in {"ready", "dtorTerminate"}
    /\ \E destroyOk \in BOOLEAN, exitOk \in BOOLEAN, instOk \in BOOLEAN :
         LET running == isSessionRunning(m_status)
             c == IF running
                  THEN closeSessionEntry(m_status, m_session, destroyOk, exitOk)
                  ELSE [status |-> m_status, session |-> m_session, loop |-> FALSE,
                        result |-> FALSE, calls |-> <<>>]
             t == terminateInstance(c.status, m_instance, instOk)
             calls == IF c.loop THEN c.calls ELSE c.calls \o t.calls
         IN /\ (m_status # "IDLE" => destroyOk)
            /\ ((~running \/ m_status = "IDLE") => exitOk)
            /\ ((c.loop \/ m_instance = "null") => instOk)
            /\ m_session' = c.session
            /\ handles' = HandlesAfter(handles, calls)
            /\ IF c.loop
               THEN /\ m_status' = c.status
                    /\ m_instance' = m_instance
                    /\ failed' = failed
                    /\ pc' = "closeLoop"
                    /\ stack' = stack \o <<"terminate", "close">>
                    /\ last' = [Did("terminate") EXCEPT
                                  !.calls = calls, !.destructor = InDestructor(stack)]
               ELSE /\ m_status' = t.status
                    /\ m_instance' = t.instance
                    /\ failed' = (failed \/ t.status = "FAILURE")
                    /\ pc' = IF InDestructor(stack) THEN "destroyed" ELSE "ready"
                    /\ stack' = <<>>
                    /\ last' = [Did("terminate") EXCEPT
                                  !.calls = calls, !.returned = TRUE, !.result = t.result,
                                  !.destructor = InDestructor(stack)]
    /\ UNCHANGED <<predictedDisplay, closing, reports, m_playSpace, m_viewCount, m_resolution, buffers, shouldRender,
                   callbacks, sessionCreated, run, frameSync>>

\* terminate(), after closeSession() returned
TerminateInstance ==
    /\ pc = "terminateInstance"
    /\ \E instOk \in BOOLEAN :
         LET t == terminateInstance(m_status, m_instance, instOk)
         IN /\ (m_instance = "null" => instOk)
            /\ m_status' = t.status
            /\ m_instance' = t.instance
            /\ failed' = (failed \/ t.status = "FAILURE")
            /\ handles' = HandlesAfter(handles, t.calls)
            /\ pc' = IF InDestructor(stack) THEN "destroyed" ELSE "ready"
            /\ stack' = <<>>
            /\ last' = [Did("terminate") EXCEPT
                          !.calls = t.calls, !.returned = TRUE, !.result = t.result,
                          !.destructor = InDestructor(stack)]
    /\ UNCHANGED <<predictedDisplay, closing, reports, m_session, m_playSpace, m_viewCount, m_resolution, buffers,
                   shouldRender, callbacks, sessionCreated, run, frameSync>>

(***************************************************************************)
(* Specifications.                                                         *)
(* Spec is the whole system: every public call, every answer of the        *)
(* runtime.  The others explore one part of it each, with the inputs       *)
(* that part does not read held to one value:                              *)
(*   EventSpec  the session state machine: every event and every result of *)
(*              the session calls; swapchain creation and the frame calls  *)
(*              succeed (they write the per-view buffers and the frame     *)
(*              state only, which event handling never reads) and no       *)
(*              callback is registered;                                    *)
(*   CallbackSpec  the lifecycle callbacks: the caller registers them,     *)
(*              every event is delivered, the runtime calls succeed;       *)
(*   RunSpec    the session-state-change events, with `run` following      *)
(*              them;                                                      *)
(*   FrameSpec  session start and the frame loop: every result of          *)
(*              startSession's stages and of the frame and swapchain       *)
(*              calls; the events are those of a session start;            *)
(*   CloseSpec  closeSession, terminate and the destructor over the        *)
(*              session state machine: session-state-change and            *)
(*              instance-loss events, every result of the session and      *)
(*              instance calls;                                            *)
(*   ViewSpec   session start and the frame loop with a runtime whose       *)
(*              xrLocateViews reports any view count;                      *)
(*   ResolutionSpec  setResolution over the session state machine;         *)
(*   RenderSpec the frame loop of OpenXRRdrMode::render over a started     *)
(*              session: every session-state-change event and every result *)
(*              of the frame calls;                                        *)
(*   QuerySpec  the per-eye accessors, before init, after an init that     *)
(*              failed or found one view or two, and over a session start; *)
(*   FormatSpec session start with a runtime that advertises any list of   *)
(*              swapchain formats;                                         *)
(*   ReportSpec the frame loop over a started session, with the refresh    *)
(*              report followed: every result of xrBeginFrame and          *)
(*              xrEndFrame, a per-view loop that runs to its end or is     *)
(*              left at once, frames in time and late;                     *)
(*   PollSpec   pollEvents over the session-state-change events, with a    *)
(*              control thread that keeps running and a runtime that       *)
(*              eventually delivers the event that ends a transitory       *)
(*              state;                                                     *)
(*   WaitSpec   the frame loop of a caller that submits whatever           *)
(*              waitNextFrame returned, with the predicted display time    *)
(*              and period followed from an indeterminate start;           *)
(*   SyncSpec   the same as PollSpec, with a control thread that also      *)
(*              goes on with the synchronize step of startSession;         *)
(*   ExitSpec   closeSession over the session state machine, with a        *)
(*              control thread that keeps running and a runtime that       *)
(*              answers every successful exit request with Stopping, Idle  *)
(*              and Exiting and honours the calls these lead to.           *)
(***************************************************************************)
Next ==
    \/ XrInit(InitFailure, 1..MaxViews)
    \/ SetAppCallback
    \/ StartSession(TRUE, TRUE, FormatInput)
    \/ SynchronizeSession
    \/ CallPollEvents
    \/ PollIteration(EventInput, PumpInput, AnyCount, TRUE)
    \/ WaitNextFrame(WaitInput, AnyCount)
    \/ Render
    \/ RenderWaitNextFrame(WaitInput, AnyCount)
    \/ SubmitFrame(AnyViews, TRUE)
    \/ SubmitEmptyFrame
    \/ SetResolution
    \/ Query
    \/ CloseSession(NoAnswer)
    \/ Destructor
    \/ CloseLoop
    \/ Terminate
    \/ TerminateInstance

Spec == Init /\ [][Next]_vars

EventNext ==
    \/ XrInit(InstanceFailure, {MaxViews})
    \/ StartSession(TRUE, FALSE, QuietFormat)
    \/ SynchronizeSession
    \/ CallPollEvents
    \/ PollIteration(EventInput, QuietPump, SameCount, FALSE)

EventSpec == Init /\ [][EventNext]_vars

CallbackNext ==
    \/ XrInit(InstanceFailure, {MaxViews})
    \/ SetAppCallback
    \/ StartSession(TRUE, FALSE, QuietFormat)
    \/ SynchronizeSession
    \/ CallPollEvents
    \/ PollIteration(OkEventInput, QuietPump, SameCount, FALSE)

CallbackSpec == Init /\ [][CallbackNext]_vars

RunNext ==
    \/ XrInit(InitFailure, 1..MaxViews)
    \/ StartSession(TRUE, FALSE, QuietFormat)
    \/ SynchronizeSession
    \/ CallPollEvents
    \/ PollIteration(StateEventInput, QuietPump, SameCount, TRUE)
    \/ CloseSession(NoAnswer)
    \/ CloseLoop

RunSpec == Init /\ [][RunNext]_vars

FrameNext ==
    \/ XrInit(InitFailure, 1..MaxViews)
    \/ StartSession(TRUE, TRUE, QuietFormat)
    \/ SynchronizeSession
    \/ PollIteration(StartEventInput, PumpInput, SameCount, FALSE)
    \/ WaitNextFrame(WaitInput, SameCount)
    \/ SubmitFrame(AnyViews, FALSE)
    \/ SubmitEmptyFrame

FrameSpec == Init /\ [][FrameNext]_vars

CloseNext ==
    \/ XrInit(InstanceFailure, {MaxViews})
    \/ StartSession(TRUE, FALSE, QuietFormat)
    \/ SynchronizeSession
    \/ CallPollEvents
    \/ PollIteration(LifetimeEventInput, QuietPump, SameCount, FALSE)
    \/ CloseSession(NoAnswer)
    \/ Destructor
    \/ CloseLoop
    \/ Terminate
    \/ TerminateInstance

CloseSpec == Init /\ [][CloseNext]_vars

ViewNext ==
    \/ XrInit(InstanceFailure, 1..MaxViews)
    \/ StartSession(TRUE, FALSE, QuietFormat)
    \/ SynchronizeSession
    \/ PollIteration(StartEventInput, PumpInput, AnyCount, FALSE)
    \/ WaitNextFrame(WaitInput, AnyCount)
    \/ SubmitFrame(AnyViews, FALSE)

ViewSpec == Init /\ [][ViewNext]_vars

ResolutionNext ==
    \/ XrInit(InitFailure, {MaxViews})
    \/ SetResolution
    \/ StartSession(TRUE, FALSE, QuietFormat)
    \/ SynchronizeSession
    \/ CallPollEvents
    \/ PollIteration(StateEventInput, QuietPump, SameCount, FALSE)

ResolutionSpec == Init /\ [][ResolutionNext]_vars

RenderNext ==
    \/ XrInit(InstanceFailure, {MaxViews})
    \/ StartSession(TRUE, FALSE, QuietFormat)
    \/ SynchronizeSession
    \/ PollIteration(StateEventInput, PumpInput, SameCount, FALSE)
    \/ Render
    \/ RenderWaitNextFrame(WaitInput, SameCount)
    \/ SubmitFrame(AnyViews, FALSE)

RenderSpec == Init /\ [][RenderNext]_vars

QueryNext ==
    \/ XrInit(InitFailure, 1..MaxViews)
    \/ StartSession(TRUE, FALSE, QuietFormat)
    \/ SynchronizeSession
    \/ PollIteration(StartEventInput, QuietPump, SameCount, FALSE)
    \/ Query

QuerySpec == Init /\ [][QueryNext]_vars

FormatNext ==
    \/ XrInit(InstanceFailure, {MaxViews})
    \/ StartSession(FALSE, FALSE, FormatInput)
    \/ SynchronizeSession
    \/ PollIteration(StartEventInput, QuietPump, SameCount, FALSE)

FormatSpec == Init /\ [][FormatNext]_vars

ReportNext ==
    \/ XrInit(InstanceFailure, {MaxViews})
    \/ StartSession(FALSE, FALSE, QuietFormat)
    \/ SynchronizeSession
    \/ PollIteration(StartEventInput, QuietPump, SameCount, FALSE)
    \/ WaitNextFrame(QuietWait, SameCount)
    \/ SubmitFrame(QuietViews \cup BrokenViews, TRUE)
    \/ SubmitEmptyFrame

ReportSpec == Init /\ [][ReportNext]_vars

PollNext ==
    \/ XrInit(InstanceFailure, {MaxViews})
    \/ StartSession(TRUE, FALSE, QuietFormat)
    \/ SynchronizeSession
    \/ CallPollEvents
    \/ PollIteration(StateEventInput, QuietPump, SameCount, FALSE)

\* An activation of pollEvents() after which SessionStatus is neither
\* Beginning nor Ending.
PollSettles ==
    /\ PollIteration(StateEventInput, QuietPump, SameCount, FALSE)
    /\ ~keepPolling(m_status')

\* The control thread goes on with the activation it is in, and the runtime
\* does not withhold for ever the event that ends a transitory state.
PollSpec ==
    /\ Init
    /\ [][PollNext]_vars
    /\ WF_vars(PollIteration(StateEventInput, QuietPump, SameCount, FALSE))
    /\ WF_vars(PollSettles)

WaitNext ==
    \/ XrInit(InstanceFailure, {MaxViews})
    \/ StartSession(FALSE, FALSE, QuietFormat)
    \/ SynchronizeSession
    \/ PollIteration(StartEventInput, QuietPump, SameCount, FALSE)
    \/ WaitNextFrame(WaitInput, SameCount)
    \/ SubmitFrame(AnyViews, FALSE)
    \/ SubmitAfterFailedWait(AnyViews)

WaitSpec == FrameStateInit /\ [][WaitNext]_vars

\* The control thread goes on with the pollEvents activation and with the
\* synchronize loop it is in; the runtime does not withhold for ever the
\* event that ends a transitory state.
SyncSpec ==
    /\ Init
    /\ [][PollNext]_vars
    /\ WF_vars(PollIteration(StateEventInput, QuietPump, SameCount, FALSE))
    /\ WF_vars(PollSettles)
    /\ WF_vars(SynchronizeSession)

ExitNext ==
    \/ XrInit(InstanceFailure, {MaxViews})
    \/ StartSession(FALSE, FALSE, QuietFormat)
    \/ SynchronizeSession
    \/ CallPollEvents
    \/ PollIteration(StateEventInput, QuietPump, SameCount, FALSE)
    \/ CloseSession(ExitAnswer)
    \/ CloseLoop

\* The control thread goes on with the pollEvents activation and with the
\* closeSession loop it is in.
ExitSpec ==
    /\ Init
    /\ [][ExitNext]_vars
    /\ WF_vars(PollIteration(StateEventInput, QuietPump, SameCount, FALSE))
    /\ WF_vars(CloseLoop)

(***************************************************************************)
(* Properties                                                              *)
(***************************************************************************)
\* The status the transition table gives after an event with session state
\* `state` that found the status `pre`.
TableStatus(state, pre) ==
    CASE state = "IDLE" -> "IDLE"
      [] state = "SYNCHRONIZED" -> "SYNCHRONIZED"
      [] state = "READY" -> "BEGINNING"
      [] state = "STOPPING" -> "ENDING"
      [] state \in {"LOSS_PENDING", "EXITING"} -> "STOPPED"
      [] OTHER -> pre

StateEventProcessed == last.op = "pollEvents" /\ last.kind = "state"

\* C1: every session-state-change event processed by pollEvents leaves
\* SessionStatus as the transition table gives (Idle -> Idle, Synchronized ->
\* Synchronized, Ready -> Beginning, Stopping -> Ending, LossPending/Exiting
\* -> Stopped, any other state: unchanged), and Failure exactly when the
\* runtime call issued for the event failed.
C1_TransitionTable ==
    StateEventProcessed =>
        IF last.call # "none" /\ ~last.callOk
        THEN m_status = "FAILURE"
        ELSE m_status = TableStatus(last.state, last.pre)

\* A Stopping event on a synchronized session has set Ending.
C1_Witness ==
    /\ StateEventProcessed
    /\ last.state = "STOPPING"
    /\ last.pre = "SYNCHRONIZED"
    /\ last.callOk
    /\ m_status = "ENDING"

CountCalls(f, name) == Cardinality({k \in 1..Len(f) : f[k].call = name})

CountOk(f, name) == Cardinality({k \in 1..Len(f) : f[k].call = name /\ f[k].ok})

\* C2: in every invocation of submitFrame (the empty form, the rendering
\* form, the empty submit of pollEvents' pump) the number of xrEndFrame calls
\* equals the number of successful xrBeginFrame calls and is at most one,
\* whatever per-view call fails.
C2_BeginEndPaired ==
    last.frameKind # "none" =>
        /\ CountCalls(last.frame, "xrEndFrame") = CountOk(last.frame, "xrBeginFrame")
        /\ CountCalls(last.frame, "xrEndFrame") <= 1

\* A rendering frame whose release call failed for a view, and that was ended.
C2_Witness ==
    /\ last.frameKind = "render"
    /\ last.preRender
    /\ \E k \in 1..Len(last.frame) :
         last.frame[k].call = "xrReleaseSwapchainImage" /\ ~last.frame[k].ok
    /\ CountCalls(last.frame, "xrEndFrame") = 1

\* Every per-view buffer holds what createSwapchain writes for each view.
Populated ==
    /\ \A i \in 0..(m_viewCount - 1) :
         SwapchainValid(m_swapchains, i) /\ ImagesValid(m_swapchainsImages, i)
    /\ ~m_swapchains.null
    /\ ~m_swapchainsImages.null
    /\ views = "alloc"
    /\ m_projectionViews = "alloc"

\* Some per-view buffer has been allocated, and not all of them are populated.
PartiallyPopulated ==
    /\ ~m_swapchains.null \/ ~m_swapchainsImages.null
         \/ views = "alloc" \/ m_projectionViews = "alloc"
    /\ ~Populated

\* A submitFrame(renderFunc) called now would read a null or unwritten buffer.
WouldReadUnpopulated ==
    \E r \in ViewInputs(0, m_viewCount) :
        renderViews(0, m_viewCount, r, m_swapchains, m_swapchainsImages, views,
                    m_projectionViews).badRead

\* C3: startSession returns true with SessionStatus Synchronized and the
\* reference space and every per-view buffer populated, or it returns false
\* and leaves no partially populated per-view buffer that a subsequent
\* submitFrame would read.
C3_StartSessionOutcomes ==
    (last.op = "startSession" /\ last.returned) =>
        IF last.result
        THEN m_status = "SYNCHRONIZED" /\ m_playSpace = "handle" /\ Populated
        ELSE ~(PartiallyPopulated /\ WouldReadUnpopulated)

\* C4: once SessionStatus is Failure, no session-state-change event processed
\* later in that session moves it to another status.
C4_FailureAbsorbing ==
    (StateEventProcessed /\ failed /\ last.pre = "FAILURE") => m_status = "FAILURE"

\* C5: when the runtime call issued for a session-state-change event fails,
\* SessionStatus is Failure, the session handle is what it was, nothing else
\* was called or invoked for the event, and pollEvents returned false.
C5_FailedCallStops ==
    (StateEventProcessed /\ last.call # "none" /\ ~last.callOk) =>
        /\ m_status = "FAILURE"
        /\ m_session = last.preSession
        /\ last.cbs = <<>>
        /\ last.calls = <<Call("xrPollEvent", TRUE), Call(last.call, FALSE)>>
        /\ last.returned
        /\ ~last.result

\* An Exiting event whose xrDestroySession failed: the handle is still set.
C5_Witness ==
    /\ StateEventProcessed
    /\ last.state = "EXITING"
    /\ ~last.callOk
    /\ last.preSession = "handle"
    /\ m_session = "handle"
    /\ m_status = "FAILURE"

\* C6, as stated: a Ready event issues xrBeginSession iff the status is not
\* Beginning, a Stopping event issues xrEndSession iff it is not Ending, and
\* every run of consecutive Ready (Stopping) events has issued exactly one
\* request.
C6_ExactlyOnePerRun ==
    /\ (StateEventProcessed /\ last.state = "READY") =>
           (last.call = "xrBeginSession" <=> last.pre # "BEGINNING")
    /\ (StateEventProcessed /\ last.state = "STOPPING") =>
           (last.call = "xrEndSession" <=> last.pre # "ENDING")
    /\ run.len >= 1 => run.reqs = 1

\* C6, amended: a Ready event issues xrBeginSession iff the status is not
\* Beginning, a Stopping event issues xrEndSession iff it is not Ending; so
\* in a run of consecutive Ready (Stopping) events every request but the
\* latest has failed: at most one request succeeds and none follows it.
C6_DuplicateGuard ==
    /\ (StateEventProcessed /\ last.state = "READY") =>
           (last.call = "xrBeginSession" <=> last.pre # "BEGINNING")
    /\ (StateEventProcessed /\ last.state = "STOPPING") =>
           (last.call = "xrEndSession" <=> last.pre # "ENDING")
    /\ run.reqs <= run.failures + 1
    /\ (StateEventProcessed /\ last.state \in {"READY", "STOPPING"} /\ last.call # "none") =>
           run.reqs - 1 = run.failures - (IF last.callOk THEN 0 ELSE 1)

\* Two consecutive Ready events, one begin-session request between them.
C6_Witness ==
    /\ run.state = "READY"
    /\ run.len = 2
    /\ run.reqs = 1
    /\ run.failures = 0

\* The lifecycle callback of a session state ("none": it has none).
CallbackFor(state) ==
    CASE state = "IDLE" -> "idle"
      [] state = "VISIBLE" -> "visible"
      [] state = "FOCUSED" -> "focused"
      [] OTHER -> "none"

\* C7: a pollEvents activation invokes the idle (visible, focused) callback
\* once if it received an Idle (Visible, Focused) session-state-change event
\* and the callback is registered, and invokes no lifecycle callback
\* otherwise.
C7_CallbackPerEvent ==
    last.op = "pollEvents" =>
        last.cbs = IF last.kind = "state" /\ CallbackFor(last.state) \in callbacks
                   THEN <<CallbackFor(last.state)>>
                   ELSE <<>>

StageOrder ==
    <<"createSession", "createReferenceSpace", "createSwapchain", "synchronizeSession">>

\* C8: the stages startSession has started are a prefix of create session,
\* create reference space, create swapchains, synchronize; every stage but
\* the last started one succeeded; it returns true iff all four succeeded,
\* and when it returns false the last stage it started is the one that
\* failed.
C8_StagesInOrder ==
    last.op \in {"startSession", "synchronizeSession"} =>
        LET s == last.stages
        IN /\ Len(s) <= Len(StageOrder)
           /\ \A k \in 1..Len(s) : s[k].stage = StageOrder[k] /\ (k < Len(s) => s[k].ok)
           /\ last.returned =>
                /\ last.result <=> (Len(s) = Len(StageOrder) /\ s[Len(s)].ok)
                /\ (~last.result /\ Len(s) > 0) => ~s[Len(s)].ok

\* startSession returned false after createReferenceSpace failed, and did
\* not start createSwapchain.
C8_Witness ==
    /\ last.op = "startSession"
    /\ last.returned
    /\ ~last.result
    /\ Len(last.stages) = 2
    /\ ~last.stages[2].ok

SwapchainCalls ==
    {"xrAcquireSwapchainImage", "xrWaitSwapchainImage", "xrReleaseSwapchainImage"}

RenderingFrame == last.frameKind = "render" /\ last.preRender

\* C9: in a rendering submitFrame, when the acquire or wait call of view i
\* fails, the callback is invoked for no view >= i, no swapchain call is
\* issued for a view > i, and xrEndFrame is issued exactly once.
C9_ViewFailureSkipsRest ==
    RenderingFrame =>
        \A k \in 1..Len(last.frame) :
            LET e == last.frame[k]
            IN (e.call \in {"xrAcquireSwapchainImage", "xrWaitSwapchainImage"} /\ ~e.ok) =>
                 /\ \A j \in 1..Len(last.frame) :
                      /\ last.frame[j].call = "renderFunc" => last.frame[j].view < e.view
                      /\ last.frame[j].call \in SwapchainCalls => last.frame[j].view <= e.view
                 /\ CountCalls(last.frame, "xrEndFrame") = 1

\* The wait call of the second view failed after the first view was rendered.
C9_Witness ==
    /\ RenderingFrame
    /\ \E k \in 1..Len(last.frame) :
         /\ last.frame[k].call = "xrWaitSwapchainImage"
         /\ ~last.frame[k].ok
         /\ last.frame[k].view = 1
    /\ \E k \in 1..Len(last.frame) : last.frame[k].call = "renderFunc"

\* C10: a rendering submitFrame in which no runtime call fails is
\* xrBeginFrame, then for each view 0..viewCount-1 in ascending order
\* acquire, wait, the callback with that view's index and the texture of the
\* image just acquired, release, then xrEndFrame.
C10_RenderOrder ==
    (RenderingFrame /\ \A k \in 1..Len(last.frame) : last.frame[k].ok) =>
        LET f == last.frame
            n == m_viewCount
        IN /\ Len(f) = 4 * n + 2
           /\ f[1].call = "xrBeginFrame"
           /\ f[Len(f)].call = "xrEndFrame"
           /\ \A i \in 0..(n - 1) :
                /\ f[4 * i + 2].call = "xrAcquireSwapchainImage" /\ f[4 * i + 2].view = i
                /\ f[4 * i + 3].call = "xrWaitSwapchainImage" /\ f[4 * i + 3].view = i
                /\ f[4 * i + 4].call = "renderFunc" /\ f[4 * i + 4].view = i
                /\ f[4 * i + 4].image = f[4 * i + 2].image
                /\ f[4 * i + 5].call = "xrReleaseSwapchainImage" /\ f[4 * i + 5].view = i

\* Two views rendered without a failure, the second into the last image of
\* its swapchain.
C10_Witness ==
    /\ RenderingFrame
    /\ \A k \in 1..Len(last.frame) : last.frame[k].ok
    /\ m_viewCount >= 2
    /\ \E k \in 1..Len(last.frame) :
         /\ last.frame[k].call = "renderFunc"
         /\ last.frame[k].view = 1
         /\ last.frame[k].image = ImageHandle(1, NumImages - 1)

\* submitFrame(renderFunc) was called while shouldRender() was false.
SkippedFrame == last.op = "submitFrame" /\ last.frameKind = "render" /\ ~last.preRender

\* C11, as stated: when shouldRender() is false, submitFrame(renderFunc)
\* issues one begin-frame and one end-frame with zero composition layers,
\* never invokes the render callback and never acquires, waits for or
\* releases a swapchain image.
C11_OneBeginOneEnd ==
    SkippedFrame =>
        /\ Len(last.frame) = 2
        /\ last.frame[1].call = "xrBeginFrame"
        /\ last.frame[2].call = "xrEndFrame"
        /\ last.frame[2].layers = 0

\* C11, amended: when shouldRender() is false, submitFrame(renderFunc)
\* issues one begin-frame and, if that call succeeded, one end-frame with
\* zero composition layers, and nothing else: no render callback, no
\* swapchain acquire, wait or release.
C11_EmptyForm ==
    SkippedFrame =>
        /\ Len(last.frame) = (IF last.frame[1].ok THEN 2 ELSE 1)
        /\ last.frame[1].call = "xrBeginFrame"
        /\ \A k \in 2..Len(last.frame) :
             last.frame[k].call = "xrEndFrame" /\ last.frame[k].layers = 0
        /\ CountCalls(last.frame, "renderFunc") = 0
        /\ \A k \in 1..Len(last.frame) : last.frame[k].call \notin SwapchainCalls

\* A skipped frame that was begun and ended with no layer, for two views.
C11_Witness ==
    /\ SkippedFrame
    /\ m_viewCount = MaxViews
    /\ Len(last.frame) = 2
    /\ last.frame[2].call = "xrEndFrame"
    /\ last.frame[2].layers = 0
    /\ last.frame[2].ok

\* C12: if any of begin-frame, swapchain acquire, wait, release or end-frame
\* fails during an invocation of submitFrame(renderFunc), in the rendering
\* path or in the empty path, the invocation returns false.
C12_FailureReturnsFalse ==
    (last.op = "submitFrame" /\ last.frameKind = "render"
       /\ \E k \in 1..Len(last.frame) : ~last.frame[k].ok)
    => ~last.result

\* C13: in the frame loop of OpenXRRdrMode::render (pollEvents with its
\* wait/submit pump, waitNextFrame, submitFrame) no xrWaitFrame is issued
\* after another xrWaitFrame without an xrBeginFrame / xrEndFrame pair
\* between the two, and no xrBeginFrame is issued without a successful
\* xrWaitFrame since the xrBeginFrame before it, whatever call fails.
C13_WaitSubmitAlternate ==
    /\ ~WaitsTwice(last.preSync, last.calls)
    /\ ~BeginsUnwaited(last.preSync, last.calls)

\* C14: no call destroys a handle while a handle created from it is live:
\* xrDestroyInstance is not issued while the session has not been
\* destroyed, xrDestroySession is not issued while the reference space or a
\* swapchain of the session has not been destroyed.
C14_ParentOutlivesChild == ~ParentDestroyedFirst(last.preHandles, last.calls)

\* C15: after terminate has returned, none of the per-view arrays that
\* startSession allocated is still allocated.
C15_ArraysReleased ==
    (last.op = "terminate" /\ last.returned) =>
        /\ m_swapchains.null
        /\ m_swapchainsImages.null
        /\ views = "null"
        /\ m_projectionViews = "null"

\* C16: when startSession has failed after it created the session handle,
\* the destructor (closeSession, then terminate) has issued
\* xrDestroySession for that handle by the time it is done.
C16_DestructorDestroysSession ==
    (last.op = "terminate" /\ last.returned /\ last.destructor /\ ~sessionCreated) =>
        handles.session \in {"none", "failed", "destroyed"}

\* C17: xrDestroyInstance is issued at most once for an instance handle,
\* and a terminate call made after the instance was destroyed issues no
\* runtime call and returns true.
C17_InstanceDestroyedOnce ==
    /\ ~handles.redestroyed
    /\ (last.op = "terminate" /\ last.returned
          /\ last.preHandles.instance \in {"failed", "destroyed"}) =>
           (last.calls = <<>> /\ last.result)

\* C18: once init has set the view count no later operation changes it, and
\* every view-count-sized array that is allocated has exactly that length.
C18_ViewCountFixed ==
    /\ last.op \notin {"construct", "init"} => m_viewCount = last.preViewCount
    /\ ~m_swapchains.null => Len(m_swapchains.elems) = m_viewCount
    /\ ~m_swapchainsImages.null => Len(m_swapchainsImages.elems) = m_viewCount

\* C19: setResolution called while isSessionRunning() is true leaves the
\* stored resolution as it was; called while it is false it stores the
\* given resolution; it changes nothing else.
C19_SetResolution ==
    last.op = "setResolution" =>
        /\ m_resolution = IF last.pre \in {"IDLE", "BEGINNING", "SYNCHRONIZED", "ENDING"}
                          THEN last.preResolution
                          ELSE last.arg
        /\ m_status = last.pre
        /\ m_session = last.preSession
        /\ m_viewCount = last.preViewCount
        /\ handles = last.preHandles
        /\ frameSync = last.preSync

\* setResolution was called with another resolution than the stored one
\* while the session was running, and the stored one is still there.
C19_Witness ==
    /\ last.op = "setResolution"
    /\ last.pre = "SYNCHRONIZED"
    /\ last.arg # last.preResolution
    /\ m_resolution = last.preResolution

\* C20: isSessionRunning() is false exactly when SessionStatus is Stopped
\* or Failure, and true for Idle, Beginning, Synchronized and Ending.
C20_RunningStatuses ==
    /\ m_status \in SessionStatus
    /\ isSessionRunning(m_status)
         <=> m_status \in {"IDLE", "BEGINNING", "SYNCHRONIZED", "ENDING"}
    /\ ~isSessionRunning(m_status) <=> m_status \in {"STOPPED", "FAILURE"}

\* The status is Failure and isSessionRunning() is false.
C20_Witness == m_status = "FAILURE" /\ ~isSessionRunning(m_status)

\* The step was a pollEvents activation that handed session state s to
\* updateCurrentSessionState.
StateHandled(s) ==
    /\ last.op = "pollEvents"
    /\ last.kind \in {"state", "loss"}
    /\ last.state = s

\* C21 (as stated): SessionStatus follows the chain Stopped -> Beginning ->
\* Synchronized -> (Idle <-> Synchronized) -> Ending -> Stopped: a step that
\* leaves Stopped for a status other than Failure enters Beginning,
\* Synchronized is entered from Beginning (or back from Idle), Ending is
\* entered from Idle or Synchronized only, and Stopped is re-entered from
\* Ending only.
C21_StateChain ==
    m_status # last.pre =>
        /\ (last.pre = "STOPPED" /\ m_status # "FAILURE") => m_status = "BEGINNING"
        /\ m_status = "SYNCHRONIZED" => last.pre \in {"BEGINNING", "IDLE"}
        /\ m_status = "ENDING" => last.pre \in {"IDLE", "SYNCHRONIZED"}
        /\ m_status = "STOPPED" => last.pre = "ENDING"

\* C21: every change of SessionStatus is the one the handled session state
\* asks for, whatever the status before it: Idle is entered on an Idle
\* state, Beginning on a Ready state whose xrBeginSession succeeded,
\* Synchronized on a Synchronized state, Ending on a Stopping state whose
\* xrEndSession succeeded, and Stopped on an Exiting or Loss-pending state
\* whose xrDestroySession succeeded or by a closeSession that found Idle.
C21_StatusChangeCauses ==
    m_status # last.pre =>
        CASE m_status = "IDLE" -> StateHandled("IDLE")
          [] m_status = "BEGINNING" ->
                 /\ StateHandled("READY")
                 /\ last.call = "xrBeginSession" /\ last.callOk
          [] m_status = "SYNCHRONIZED" -> StateHandled("SYNCHRONIZED")
          [] m_status = "ENDING" ->
                 /\ StateHandled("STOPPING")
                 /\ last.call = "xrEndSession" /\ last.callOk
          [] m_status = "STOPPED" ->
                 \/ /\ StateHandled("EXITING") \/ StateHandled("LOSS_PENDING")
                    /\ last.call = "xrDestroySession" /\ last.callOk
                 \/ /\ last.op \in {"closeSession", "terminate"}
                    /\ last.pre = "IDLE"
          [] m_status = "FAILURE" ->
                 \E k \in 1..Len(last.calls) : ~last.calls[k].ok

\* The chain of a session that ends as the runtime orders it: Stopped was
\* re-entered from Idle, on an Exiting state.
C21_Witness ==
    /\ StateHandled("EXITING")
    /\ last.kind = "state"
    /\ last.pre = "IDLE"
    /\ m_status = "STOPPED"
    /\ m_session = "null"

\* C22: an activation of pollEvents polls again exactly when it leaves
\* SessionStatus Beginning or Ending, so pollEvents returns only with a
\* status that is neither; and with a runtime that eventually delivers an
\* event that moves the status out of Beginning / Ending, every pollEvents
\* call returns.
C22_PollTerminates ==
    /\ [](last.op = "pollEvents" =>
            /\ last.returned <=> m_status \notin {"BEGINNING", "ENDING"}
            /\ ~last.returned <=> pc = "poll")
    /\ (pc = "poll") ~> (pc # "poll")

\* A pollEvents call that polled again while Ending has returned, on the
\* event that moved the status to Idle.
C22_Witness ==
    /\ last.op = "pollEvents"
    /\ last.pre = "ENDING"
    /\ last.kind = "state"
    /\ last.returned
    /\ m_status = "IDLE"

\* The positions in a call log of the calls named name.
CallsAt(f, name) == {k \in 1..Len(f) : f[k].call = name}

FrameLoopCalls == {"xrWaitFrame", "xrLocateViews", "xrBeginFrame", "xrEndFrame"}

\* C23: an activation of pollEvents that ends with SessionStatus Beginning
\* runs one waitNextFrame (one xrWaitFrame) and then one submitFrame() (one
\* xrBeginFrame and, when it succeeded, one xrEndFrame with zero layers),
\* after its event handling and before it polls again; an activation that
\* ends with any other status, Ending included, issues no frame call.
C23_PumpWhileBeginning ==
    last.op = "pollEvents" =>
        IF m_status = "BEGINNING"
        THEN /\ pc = "poll"
             /\ Cardinality(CallsAt(last.calls, "xrWaitFrame")) = 1
             /\ Cardinality(CallsAt(last.calls, "xrBeginFrame")) = 1
             /\ \A w \in CallsAt(last.calls, "xrWaitFrame"),
                   b \in CallsAt(last.calls, "xrBeginFrame") :
                    /\ w < b
                    /\ \A k \in 1..(w - 1) : last.calls[k].call \notin FrameLoopCalls
                    /\ Cardinality(CallsAt(last.calls, "xrEndFrame"))
                         = (IF last.calls[b].ok THEN 1 ELSE 0)
                    /\ \A e \in CallsAt(last.calls, "xrEndFrame") :
                          e = b + 1 /\ e = Len(last.calls) /\ last.calls[e].layers = 0
        ELSE \A k \in 1..Len(last.calls) : last.calls[k].call \notin FrameLoopCalls

\* A Ready event began the session and the activation pumped a frame:
\* xrWaitFrame, xrLocateViews, xrBeginFrame, xrEndFrame with zero layers.
C23_Witness ==
    /\ last.op = "pollEvents"
    /\ StateHandled("READY")
    /\ m_status = "BEGINNING"
    /\ Len(last.calls) = 6
    /\ last.calls[3].call = "xrWaitFrame" /\ last.calls[3].ok
    /\ last.calls[5].call = "xrBeginFrame" /\ last.calls[5].ok
    /\ last.calls[6].call = "xrEndFrame" /\ last.calls[6].layers = 0

\* The step was a submitFrame(renderFunc) call that went through the
\* rendering path: shouldRender() was true and xrBeginFrame succeeded.
FrameRendered ==
    /\ last.op = "submitFrame"
    /\ last.frameKind = "render"
    /\ last.preRender
    /\ last.frame[1].call = "xrBeginFrame" /\ last.frame[1].ok

\* The accumulating report of the step before, with one more frame counted.
Counted ==
    [nbMissedFrames |-> last.preCurrentReport.nbMissedFrames + (IF last.late THEN 1 ELSE 0),
     totalRenderedFrames |-> last.preCurrentReport.totalRenderedFrames + 1]

\* C24: the accumulating report always has 0 <= totalRenderedFrames <= 99
\* and nbMissedFrames <= totalRenderedFrames; the update that counts the
\* 100th frame of a window, and no other, copies the window to the published
\* report (totalRenderedFrames = 100, the window's missed count) and
\* restarts the accumulating counters at 0; every other step leaves the
\* report that getRefreshReport returns as it was.
C24_ReportWindow ==
    /\ m_currentFrameRefreshReport.totalRenderedFrames \in 0..99
    /\ m_currentFrameRefreshReport.nbMissedFrames \in
           0..m_currentFrameRefreshReport.totalRenderedFrames
    /\ IF FrameRendered /\ last.preCurrentReport.totalRenderedFrames = 99
       THEN /\ getRefreshReport(m_lastFrameRefreshReport).totalRenderedFrames = 100
            /\ getRefreshReport(m_lastFrameRefreshReport).nbMissedFrames
                 = Counted.nbMissedFrames
            /\ m_currentFrameRefreshReport = NoReport
       ELSE getRefreshReport(m_lastFrameRefreshReport) = last.preLastReport

\* The 100th frame of a window with one late frame was counted: the window
\* is published and a new one begins.
C24_Witness ==
    /\ FrameRendered
    /\ last.preCurrentReport = [nbMissedFrames |-> 1, totalRenderedFrames |-> 99]
    /\ ~last.late
    /\ m_lastFrameRefreshReport = [nbMissedFrames |-> 1, totalRenderedFrames |-> 100]
    /\ m_currentFrameRefreshReport = NoReport

C26_OutOfRangeZero ==
    (last.op = "query" /\ eyeToViewIndex(last.eye) >= last.preViewCount) =>
        /\ last.value = "zero"
        /\ last.readView = -1
        /\ m_status = last.pre
        /\ m_session = last.preSession
        /\ m_viewCount = last.preViewCount
        /\ m_resolution = last.preResolution
        /\ handles = last.preHandles
        /\ frameSync = last.preSync

\* C27: a pollEvents activation that receives an instance-loss-pending
\* event destroys the instance, sets Failure if that fails, and does
\* nothing else: it invokes no lifecycle callback, issues no xrBeginSession,
\* xrEndSession or xrDestroySession, and leaves SessionStatus as it was
\* unless it sets Failure.
C27_LossOnlyDestroysInstance ==
    (last.op = "pollEvents" /\ last.kind = "loss") =>
        /\ last.cbs = <<>>
        /\ last.call = "none"
        /\ \A k \in 1..Len(last.calls) :
              last.calls[k].call \notin {"xrBeginSession", "xrEndSession", "xrDestroySession"}
        /\ m_status \in {last.pre, "FAILURE"}
        /\ m_session = last.preSession

\* The position of stage `name` in the stage log of the step (0: not there).
StageAt(name) ==
    IF StageStarted(last.stages, name)
    THEN CHOOSE k \in 1..Len(last.stages) : last.stages[k].stage = name
    ELSE 0

\* Stage `name` failed and was the last stage of the step.
FailedLast(name) ==
    /\ StageAt(name) = Len(last.stages)
    /\ ~last.stages[StageAt(name)].ok

\* C28: init returns false when the OpenGL extension is missing, when
\* xrCreateInstance is rejected, when xrGetSystem finds no system, when
\* either xrEnumerateViewConfigurationViews call fails or when the graphics
\* requirements query fails, and the failing stage is then the last one it
\* went through (what a later stage would write is as it was); it returns
\* true only when every stage succeeded, and the stored resolution is then
\* the recommended resolution of view 0.
C28_InitStages ==
    last.op = "init" =>
        /\ \A k \in 1..Len(last.stages) : last.stages[k].stage = InitOrder[k]
        /\ \A name \in {"noOpenGL", "createInstance", "getSystem", "viewCount",
                        "enumViews", "graphicsRequirements"} :
              (StageStarted(last.stages, name) /\ ~StageOk(last.stages, name)) =>
                  /\ ~last.result
                  /\ FailedLast(name)
        /\ ~StageOk(last.stages, "createInstance") => m_instance = "null"
        /\ ~StageOk(last.stages, "viewCount") => m_viewCount = last.preViewCount
        /\ ~StageOk(last.stages, "enumViews") => m_resolution = last.preResolution
        /\ last.result <=>
              /\ Len(last.stages) = Len(InitOrder)
              /\ \A k \in 1..Len(last.stages) : last.stages[k].ok
        /\ last.result => m_resolution = "recommended"

\* init failed at xrGetSystem: the instance exists, no view was discovered
\* and no resolution stored.
C28_Witness ==
    /\ last.op = "init"
    /\ FailedLast("getSystem")
    /\ ~last.result
    /\ m_instance = "handle"
    /\ m_viewCount = 0
    /\ m_resolution = "zero"

\* The formats of a list.
FormatsOf(list) == {list[k] : k \in 1..Len(list)}

\* C29: when the runtime advertises a non-empty list of swapchain formats,
\* the format selected is GL_SRGB8_ALPHA8_EXT if the list holds it at any
\* position and the first format of the list otherwise, and every
\* xrCreateSwapchain call of the session start asks for that format.
C29_FormatSelection ==
    (last.op = "startSession" /\ last.formats # <<>>) =>
        LET selected == IF GL_SRGB8_ALPHA8_EXT \in FormatsOf(last.formats)
                        THEN GL_SRGB8_ALPHA8_EXT
                        ELSE last.formats[1]
        IN /\ selectSwapchainFormat(TRUE, last.formats, GL_SRGB8_ALPHA8_EXT, TRUE, -1)
                = selected
           /\ \A k \in 1..Len(last.created) : last.created[k] = selected

\* The preferred format came last in the list and the swapchains of both
\* views were created with it.
C29_Witness ==
    /\ last.op = "startSession"
    /\ Len(last.formats) = MaxFormats
    /\ last.formats[1] # GL_SRGB8_ALPHA8_EXT
    /\ last.formats[MaxFormats] = GL_SRGB8_ALPHA8_EXT
    /\ last.created = <<GL_SRGB8_ALPHA8_EXT, GL_SRGB8_ALPHA8_EXT>>

\* closeSession has gone through its first branch test (not yet its loop).
CloseEntered == last.op = "closeSession" /\ ~last.loop

\* closeSession has returned from its polling loop.
CloseReturned == last.op = "closeSession" /\ last.loop

\* closeSession's successful exit request has just been answered.
ExitAnswered == CloseEntered /\ pc = "closeLoop" /\ closing.pending = ExitAnswer

\* How many of the calls the answered events led to are `call`.
ClosingCalls(call) == Cardinality({k \in 1..Len(closing.calls) : closing.calls[k] = call})

\* Stopped, the handle null, xrEndSession and xrDestroySession once each.
ClosedOnce ==
    /\ m_status = "STOPPED"
    /\ m_session = "null"
    /\ ClosingCalls("xrEndSession") = 1
    /\ ClosingCalls("xrDestroySession") = 1

\* closeSession acts by status: nothing in Stopped, xrDestroySession alone in
\* Idle, one xrRequestExitSession otherwise, followed (if it succeeds) by
\* pollEvents for as long as isSessionRunning().
ActsByStatus ==
    /\ CloseEntered =>
          CASE last.pre = "STOPPED" -> last.calls = <<>> /\ last.returned
            [] last.pre = "IDLE" ->
                 /\ Len(last.calls) = 1
                 /\ last.calls[1].call = "xrDestroySession"
                 /\ last.returned
            [] OTHER ->
                 /\ Len(last.calls) = 1
                 /\ last.calls[1].call = "xrRequestExitSession"
                 /\ last.returned = ~last.calls[1].ok
                 /\ (~last.returned => pc = "closeLoop")
    /\ last.op = "closeSession loop" => (isSessionRunning(m_status) /\ pc = "poll")
    /\ CloseReturned => ~isSessionRunning(m_status)

FailedExit ==
    stateExit([status |-> last.pre, session |-> last.preSession, call |-> "none",
               cbs |-> <<>>], FALSE)

\* C31: when xrDestroySession fails inside a closeSession entered in Idle,
\* closeSession returns with SessionStatus Failure and the session handle
\* not cleared, the outcome of a failed destroy while handling an Exiting
\* event.
C31_IdleDestroyFailureKept ==
    (/\ CloseEntered
     /\ last.pre = "IDLE"
     /\ last.calls = <<Call("xrDestroySession", FALSE)>>) =>
        /\ last.returned
        /\ m_status = "FAILURE"
        /\ m_session = last.preSession
        /\ m_status = FailedExit.status
        /\ m_session = FailedExit.session

\* C32: closeSession returns true exactly when SessionStatus is Stopped on
\* return (closing an Idle or Synchronized session, or calling it on a
\* Stopped one) and false when SessionStatus is Failure on return.
C32_ReturnsTrueWhenClosed ==
    (last.op = "closeSession" /\ last.returned) =>
        /\ last.result = (m_status = "STOPPED")
        /\ m_status = "FAILURE" => ~last.result

\* synchronizeSession is running: startSession waits for it.
InSynchronize == stack # <<>> /\ stack[1] = "sync"

\* startSession has returned what synchronizeSession returned.
SynchronizeReturned ==
    /\ last.op = "startSession"
    /\ last.returned
    /\ last.stages # <<>>
    /\ last.stages[Len(last.stages)].stage = "synchronizeSession"

\* pollEvents has returned to synchronizeSession with the session destroyed.
SessionDestroyed == m_status = "STOPPED" /\ m_session = "null"

\* C33: the synchronize step of startSession returns true once SessionStatus
\* is Synchronized and false once it is Failure or the session has been
\* destroyed: whenever pollEvents hands it one of these, it returns.
C33_SynchronizeTerminates ==
    /\ [](SynchronizeReturned => last.result = (m_status = "SYNCHRONIZED"))
    /\ (/\ pc = "syncPolled"
        /\ (m_status \in {"SYNCHRONIZED", "FAILURE"} \/ SessionDestroyed))
          ~> ~InSynchronize

\* The step issued frame-loop calls from waitNextFrame or submitFrame.
FrameCallsIssued ==
    /\ last.op \in {"waitNextFrame", "submitFrame"}
    /\ last.calls # <<>>

\* C34: no frame-loop runtime call is issued on a session handle that is null
\* or has been destroyed; within one render cycle, once pollEvents has
\* destroyed the session, neither waitNextFrame nor submitFrame issues a
\* call.
C34_NoFrameCallOnDeadSession ==
    /\ FrameCallsIssued => (last.preSession # "null" /\ Live(last.preHandles.session))
    /\ (last.op = "pollEvents" /\ last.frame # <<>>) =>
          (m_session # "null" /\ Live(handles.session))

\* Some xrEndFrame of `calls` is issued while an image acquired by an
\* earlier call of `calls` has had no xrReleaseSwapchainImage call; held:
\* the views whose image is acquired.
RECURSIVE HeldAtEndFrame(_, _)
HeldAtEndFrame(held, calls) ==
    IF calls = <<>> THEN FALSE
    ELSE LET c == Head(calls)
             after == CASE c.call = "xrAcquireSwapchainImage" /\ c.ok -> held \cup {c.view}
                        [] c.call = "xrReleaseSwapchainImage" -> held \ {c.view}
                        [] OTHER -> held
         IN \/ c.call = "xrEndFrame" /\ held # {}
            \/ HeldAtEndFrame(after, Tail(calls))

\* C35: every swapchain image acquired during a submitFrame invocation is
\* released before that invocation issues xrEndFrame, also when waiting for
\* the image fails.
C35_AcquireReleaseBalanced ==
    last.op = "submitFrame" => ~HeldAtEndFrame({}, last.calls)

\* C36: in every reachable state in which an eye index passes the accessors'
\* bounds check the views array has been allocated, so no accessor reads an
\* unallocated array.
C36_ViewsAllocatedInRange ==
    /\ \A eye \in Eye : eyeToViewIndex(eye) < m_viewCount => views # "null"
    /\ last.op = "query" => ~last.badRead

\* waitNextFrame has returned after a failed xrWaitFrame.
WaitFailed == last.op = "waitNextFrame" /\ last.calls = <<Call("xrWaitFrame", FALSE)>>

\* C37: after a waitNextFrame whose xrWaitFrame failed, shouldRender() is
\* false and the stored predicted display time and period are 0, whatever
\* the frame state held before; a submitFrame(renderFunc) that follows
\* begins and ends a frame with no layer and never calls renderFunc.
C37_FailedWaitResets ==
    /\ WaitFailed =>
          /\ ~shouldRender
          /\ predictedDisplay.time = 0
          /\ predictedDisplay.period = 0
          /\ ~last.result
    /\ (last.op = "submitFrame" /\ last.unwaited) =>
          /\ \A k \in 1..Len(last.calls) :
                last.calls[k].call \in {"xrBeginFrame", "xrEndFrame"}
          /\ \A k \in 1..Len(last.calls) :
                last.calls[k].call = "xrEndFrame" => last.calls[k].layers = 0
          /\ last.calls = submitFrameEmpty(last.calls[1].ok,
                                           last.calls[Len(last.calls)].ok).calls
          /\ ~last.reported

\* The failed wait found the predicted time and period of an earlier frame.
C37_Witness ==
    /\ WaitFailed
    /\ last.prePredicted = RuntimePrediction
    /\ ~shouldRender
    /\ predictedDisplay = NoPrediction

====
